---- MODULE Spec2Model ----
(***************************************************************************)
(* Model of the semantic-chain retrieval pipeline:                         *)
(*   - DocumentLoaderFactory   (loaders/DocumentLoaderFactory)             *)
(*   - VectorStoreFactory      (vectorstores/VectorStoreFactory)           *)
(*   - RAGPipeline             (core/RAGPipeline.ts)                       *)
(*   - SemanticSearchProcessor (core/SemanticSearch)                       *)
(* Texts are sequences of one-character strings.  Every await of the       *)
(* TypeScript code is a step boundary: a call is a small process whose     *)
(* program counter says which await it is suspended at.                    *)
(***************************************************************************)
EXTENDS Integers, Sequences, FiniteSets, TLC

----------------------------------------------------------------------------
(* Bounds of the model *)

\* initialize() calls made on the one RAGPipeline instance
MaxInits == 2
\* addNewDocuments() calls made on the instance
MaxAdds == 1
\* query() calls made on the instance (each has its own slot)
MaxQueries == 2
\* processDocuments() calls made on the SemanticSearchProcessor
MaxProcess == 2
\* queries in one batch
MaxBatch == 2
\* length of the literal text of a 'text' loader configuration
MaxTextLen == 3
\* processDocuments() and changePDF() calls made on the CustomPDFProcessor
MaxPdfCalls == 2
\* length of a content handed to the splitter on its own
MaxSplitLen == 4
\* chunkSize and chunkOverlap handed to the splitter on its own
MaxChunkSize == 3

----------------------------------------------------------------------------
(* Program constants *)

\* k of the retrieve node: similaritySearch(state.question, 4)
RetrieveK == 4
\* default k of search / searchWithScore / searchWithVectorsWithScore
DefaultSearchK == 3

\* an optional field of a configuration object is present
Has(config, field) == field \in DOMAIN config

----------------------------------------------------------------------------
(* Sequence helpers *)

RECURSIVE Flatten(_)
Flatten(ss) == IF ss = <<>> THEN <<>> ELSE Head(ss) \o Flatten(Tail(ss))

RECURSIVE JoinWith(_, _)
\* Array.prototype.join: the items separated by sep (a text)
JoinWith(ss, sep) ==
  IF ss = <<>> THEN <<>>
  ELSE IF Len(ss) = 1 THEN ss[1]
  ELSE ss[1] \o sep \o JoinWith(Tail(ss), sep)

Range(s) == {s[i] : i \in DOMAIN s}

Whitespace == {" ", "\n"}

RECURSIVE TrimLeft(_)
TrimLeft(t) == IF t # <<>> /\ Head(t) \in Whitespace THEN TrimLeft(Tail(t)) ELSE t

RECURSIVE TrimRight(_)
TrimRight(t) ==
  IF t # <<>> /\ t[Len(t)] \in Whitespace THEN TrimRight(SubSeq(t, 1, Len(t) - 1)) ELSE t

\* String.prototype.trim
Trim(t) == TrimRight(TrimLeft(t))

----------------------------------------------------------------------------
(* RecursiveCharacterTextSplitter with its default separators and          *)
(* keepSeparator = true. A text that holds none of the separators falls    *)
(* through to the "" separator: it is split into characters, which are     *)
(* merged into windows.                                                    *)

\* TextSplitter constructor: "Cannot have chunkOverlap >= chunkSize"
SplitterConfigValid(chunking) == chunking.chunkOverlap < chunking.chunkSize

RECURSIVE SplitLength(_)
SplitLength(cur) == IF cur = <<>> THEN 0 ELSE Len(Head(cur)) + SplitLength(Tail(cur))

\* joinDocs: join and trim; an empty text is dropped
JoinDocs(cur) == Trim(Flatten(cur))

RECURSIVE ShrinkWindow(_, _, _, _)
\* the while loop of mergeSplits: drop from the front while the window is
\* longer than the overlap, or would overflow with the next split
ShrinkWindow(cur, len, chunkSize, chunkOverlap) ==
  LET total == SplitLength(cur) IN
  IF total > chunkOverlap \/ (total + len > chunkSize /\ total > 0)
  THEN ShrinkWindow(Tail(cur), len, chunkSize, chunkOverlap)
  ELSE cur

RECURSIVE MergeSplits(_, _, _, _, _)
\* mergeSplits(splits, ""): docs so far, the current window, the splits left
MergeSplits(docs, cur, splits, chunkSize, chunkOverlap) ==
  IF splits = <<>>
  THEN IF JoinDocs(cur) = <<>> THEN docs ELSE Append(docs, JoinDocs(cur))
  ELSE
    LET d == Head(splits)
        overflow == SplitLength(cur) + Len(d) > chunkSize /\ Len(cur) > 0
        docs2 == IF overflow /\ JoinDocs(cur) # <<>>
                 THEN Append(docs, JoinDocs(cur)) ELSE docs
        cur2 == IF overflow
                THEN ShrinkWindow(cur, Len(d), chunkSize, chunkOverlap) ELSE cur
    IN MergeSplits(docs2, Append(cur2, d), Tail(splits), chunkSize, chunkOverlap)

\* the default separators: "\n\n", "\n", " ", ""
Separators == << <<"\n", "\n">>, <<"\n">>, <<" ">>, <<>> >>

\* separator occurs in text at position i
OccursAt(text, separator, i) ==
  /\ i + Len(separator) - 1 <= Len(text)
  /\ SubSeq(text, i, i + Len(separator) - 1) = separator

\* String.prototype.includes
Includes(text, separator) == \E i \in 1..Len(text) : OccursAt(text, separator, i)

RECURSIVE CutBefore(_, _, _)
\* the pieces of text between the cut positions, taken from position from on
CutBefore(text, cuts, from) ==
  IF from > Len(text) THEN <<>>
  ELSE LET later == {c \in cuts : c > from}
           to == IF later = {} THEN Len(text) + 1
                 ELSE CHOOSE c \in later : \A d \in later : c <= d
       IN <<SubSeq(text, from, to - 1)>> \o CutBefore(text, cuts, to)

\* splitOnSeparator with keepSeparator: the text is cut in front of every
\* occurrence of the separator (never at its start), so every piece after
\* the first begins with the separator; "" cuts into characters
SplitOnSeparator(text, separator) ==
  IF separator = <<>> THEN [i \in 1..Len(text) |-> <<text[i]>>]
  ELSE CutBefore(text, {i \in 2..Len(text) : OccursAt(text, separator, i)}, 1)

\* the first separator that is "" or occurs in the text
SeparatorIndex(text, separators) ==
  CHOOSE i \in 1..Len(separators) :
    /\ separators[i] = <<>> \/ Includes(text, separators[i])
    /\ \A j \in 1..(i - 1) :
         separators[j] # <<>> /\ ~Includes(text, separators[j])

RECURSIVE SplitTextWith(_, _, _)
RECURSIVE SplitPieces(_, _, _, _, _)

\* the loop of _splitText over the pieces: a piece shorter than chunkSize
\* waits in goodSplits to be merged; any other piece first flushes
\* goodSplits and is then split by the separators left, or kept whole when
\* none is left
SplitPieces(splits, goodSplits, finalChunks, newSeparators, chunking) ==
  LET merged == MergeSplits(<<>>, <<>>, goodSplits,
                            chunking.chunkSize, chunking.chunkOverlap)
  IN IF splits = <<>>
     THEN IF goodSplits # <<>> THEN finalChunks \o merged ELSE finalChunks
     ELSE LET piece == Head(splits) IN
          IF Len(piece) < chunking.chunkSize
          THEN SplitPieces(Tail(splits), Append(goodSplits, piece), finalChunks,
                           newSeparators, chunking)
          ELSE LET flushed == IF goodSplits # <<>> THEN finalChunks \o merged
                              ELSE finalChunks
                   pieces == IF newSeparators = <<>> THEN <<piece>>
                             ELSE SplitTextWith(piece, newSeparators, chunking)
               IN SplitPieces(Tail(splits), <<>>, flushed \o pieces,
                              newSeparators, chunking)

\* _splitText(text, separators); the separators end with "", after which
\* there are no new separators
SplitTextWith(text, separators, chunking) ==
  LET i == SeparatorIndex(text, separators)
      newSeparators == IF separators[i] = <<>> THEN <<>>
                       ELSE SubSeq(separators, i + 1, Len(separators))
  IN SplitPieces(SplitOnSeparator(text, separators[i]), <<>>, <<>>,
                 newSeparators, chunking)

\* splitText of one text
SplitText(text, chunking) == SplitTextWith(text, Separators, chunking)

\* splitDocuments: the chunks of every document, in order, each carrying the
\* metadata of its document
RECURSIVE SplitDocuments(_, _)
SplitDocuments(docs, chunking) ==
  IF docs = <<>> THEN <<>>
  ELSE LET d == Head(docs)
           texts == SplitText(d.pageContent, chunking)
       IN [i \in 1..Len(texts) |-> [pageContent |-> texts[i], metadata |-> d.metadata]]
          \o SplitDocuments(Tail(docs), chunking)

----------------------------------------------------------------------------
(* The environment: file system, web, embedding model *)

\* characters the embedding model tells apart
Alphabet == {"a", "b", "c", "d"}

\* fs.existsSync and the content a TextLoader / PDFLoader reads
ExistingFiles == {"/docs/a.txt"}
FileContent(path) == <<"c", "d">>
\* what the CheerioWebBaseLoader extracts when the fetch succeeds
WebContent(url) == <<"b", "c", "d">>

MkDoc(text, source) == [pageContent |-> text, metadata |-> [source |-> source]]

Ok(v) == [ok |-> TRUE, value |-> v]
Err(e) == [ok |-> FALSE, error |-> e]

----------------------------------------------------------------------------
(* DocumentLoaderFactory *)

\* a createLoader that looks at the declared sub-format of a file before it
\* looks for the file
FormatFirstCreateLoader(config) ==
  CASE config.type = "web" ->
         IF ~Has(config, "webConfig") THEN Err("Web config required for web loader")
         ELSE Ok([kind |-> "cheerio", url |-> config.webConfig.url])
    [] config.type = "file" ->
         IF ~Has(config, "fileConfig") THEN Err("File config required for file loader")
         ELSE IF config.fileConfig.type \notin {"pdf", "txt"}
              THEN Err("Unsupported file type")
         ELSE IF config.fileConfig.path \notin ExistingFiles THEN Err("File not found")
         ELSE Ok([kind |-> config.fileConfig.type, path |-> config.fileConfig.path])
    [] config.type = "text" ->
         IF ~Has(config, "textConfig") THEN Err("Text config required for text loader")
         ELSE Ok([kind |-> "text", content |-> config.textConfig.content])
    [] OTHER -> Err("Unsupported loader type")

\* createLoader: the loader for a configuration, or the error it throws
CreateLoader(config) ==
  CASE config.type = "web" ->
         IF ~Has(config, "webConfig") THEN Err("Web config required for web loader")
         ELSE Ok([kind |-> "cheerio", url |-> config.webConfig.url])
    [] config.type = "file" ->
         IF ~Has(config, "fileConfig") THEN Err("File config required for file loader")
         ELSE IF config.fileConfig.path \notin ExistingFiles THEN Err("File not found")
         ELSE IF config.fileConfig.type = "pdf"
              THEN Ok([kind |-> "pdf", path |-> config.fileConfig.path])
         ELSE IF config.fileConfig.type = "txt"
              THEN Ok([kind |-> "txt", path |-> config.fileConfig.path])
         ELSE Err("Unsupported file type")
    [] config.type = "text" ->
         IF ~Has(config, "textConfig") THEN Err("Text config required for text loader")
         ELSE Ok([kind |-> "text", content |-> config.textConfig.content])
    [] OTHER -> Err("Unsupported loader type")

\* a load whose text loader makes one Document of every character
PerCharacterLoaderLoad(loader) ==
  CASE loader.kind = "text" ->
         {Ok([i \in DOMAIN loader.content |->
                MkDoc(<<loader.content[i]>>, "text-input")])}
    [] loader.kind = "cheerio" ->
         {Ok(<<MkDoc(WebContent(loader.url), loader.url)>>), Err("fetch failed")}
    [] loader.kind \in {"pdf", "txt"} ->
         {Ok(<<MkDoc(FileContent(loader.path), loader.path)>>), Err("read failed")}

\* loader.load(): the outcomes a load can have; network and file reads may fail
LoaderLoad(loader) ==
  CASE loader.kind = "text" -> {Ok(<<MkDoc(loader.content, "text-input")>>)}
    [] loader.kind = "cheerio" ->
         {Ok(<<MkDoc(WebContent(loader.url), loader.url)>>), Err("fetch failed")}
    [] loader.kind \in {"pdf", "txt"} ->
         {Ok(<<MkDoc(FileContent(loader.path), loader.path)>>), Err("read failed")}

\* loadDocuments: createLoader, then load
LoadDocuments(config) ==
  LET l == CreateLoader(config) IN
  IF l.ok THEN LoaderLoad(l.value) ELSE {l}

----------------------------------------------------------------------------
(* VectorStoreFactory *)

\* a createVectorStore that falls back to the in-memory store for what it
\* cannot build
FallbackCreateVectorStore(config) ==
  IF config.type = "pinecone" /\ Has(config, "pineconeConfig")
  THEN Ok([type |-> "pinecone", memoryVectors |-> <<>>])
  ELSE Ok([type |-> "memory", memoryVectors |-> <<>>])

\* createVectorStore: a new store object, or the error it throws
CreateVectorStore(config) ==
  CASE config.type = "memory" -> Ok([type |-> "memory", memoryVectors |-> <<>>])
    [] config.type = "pinecone" ->
         IF ~Has(config, "pineconeConfig")
         THEN Err("Pinecone config required for Pinecone store")
         ELSE Ok([type |-> "pinecone", memoryVectors |-> <<>>])
    [] OTHER -> Err("Unsupported vector store type")

----------------------------------------------------------------------------
(* Embeddings and similarity search (MemoryVectorStore, cosine similarity) *)

\* the embedding of a text: how often it holds each character
Embed(text) == [c \in Alphabet |-> Cardinality({i \in DOMAIN text : text[i] = c})]

RECURSIVE SumOver(_, _)
SumOver(f, S) ==
  IF S = {} THEN 0 ELSE LET c == CHOOSE x \in S : TRUE IN f[c] + SumOver(f, S \ {c})

Dot(u, v) == SumOver([c \in Alphabet |-> u[c] * v[c]], Alphabet)

\* cosine(q, u) > cosine(q, v), compared without division (all dots are >= 0)
MoreSimilar(q, u, v) ==
  Dot(q, u) * Dot(q, u) * Dot(v, v) > Dot(q, v) * Dot(q, v) * Dot(u, u)

\* the records sorted by similarity to q, best first; the sort is stable, so
\* equal scores keep insertion order
RankedIndexes(records, q) ==
  LET n == Len(records)
      vec(i) == Embed(records[i].pageContent)
      before(j, i) == \/ MoreSimilar(q, vec(j), vec(i))
                      \/ (~MoreSimilar(q, vec(i), vec(j)) /\ j < i)
      rank(i) == Cardinality({j \in 1..n : j # i /\ before(j, i)})
  IN [r \in 1..n |-> CHOOSE i \in 1..n : rank(i) = r - 1]

Min(a, b) == IF a < b THEN a ELSE b

\* a search that ranks the records and forgets to cut the ranking at k
UncutSimilaritySearchVector(records, q, k) ==
  LET order == RankedIndexes(records, q)
  IN [r \in 1..Len(records) |-> records[order[r]]]

\* similaritySearchVectorWithScore, without the scores: the best k records
SimilaritySearchVector(records, q, k) ==
  LET order == RankedIndexes(records, q)
  IN [r \in 1..Min(k, Len(records)) |-> records[order[r]]]

\* floor of the square root of x, for lo * lo <= x < hi * hi
RECURSIVE SqrtBetween(_, _, _)
SqrtBetween(x, lo, hi) ==
  IF hi - lo <= 1 THEN lo
  ELSE LET mid == (lo + hi) \div 2
       IN IF mid * mid <= x THEN SqrtBetween(x, mid, hi)
          ELSE SqrtBetween(x, lo, mid)

\* the cosine similarity of two embeddings, in thousandths (fixed point in
\* place of the floating-point number); 0 for a zero vector
Cosine(u, v) ==
  IF Dot(u, u) = 0 \/ Dot(v, v) = 0 THEN 0
  ELSE SqrtBetween((1000000 * Dot(u, v) * Dot(u, v)) \div (Dot(u, u) * Dot(v, v)),
                   0, 1001)

\* the largest number of a non-empty set
MaxOf(S) == CHOOSE x \in S : \A y \in S : y <= x

\* maximalMarginalRelevance: the greedy selection over the candidates'
\* embeddings, lambda in tenths; selected holds the indexes picked so far.
\* A candidate replaces the best so far only with a strictly better score.
RECURSIVE MmrSelect(_, _, _, _, _)
MmrSelect(selected, q, embeddingList, lambda, k) ==
  LET n == Len(embeddingList)
      toQuery(i) == Cosine(q, embeddingList[i])
      picked == Range(selected)
      toSelected(i) ==
        MaxOf({Cosine(embeddingList[i], embeddingList[j]) : j \in picked})
      score(i) ==
        IF selected = <<>> THEN toQuery(i)
        ELSE lambda * toQuery(i) - (10 - lambda) * toSelected(i)
      rest == (1..n) \ picked
      best == CHOOSE i \in rest :
                \A j \in rest : \/ score(i) > score(j)
                                \/ (score(i) = score(j) /\ i <= j)
  IN IF Len(selected) >= Min(k, n) THEN selected
     ELSE MmrSelect(Append(selected, best), q, embeddingList, lambda, k)

\* maxMarginalRelevanceSearch: the fetchK most similar records are the
\* candidates, the greedy selection picks k of them
MaxMarginalRelevanceSearch(records, q, k, fetchK, lambda) ==
  LET searches == SimilaritySearchVector(records, q, fetchK)
      embeddingList == [i \in DOMAIN searches |-> Embed(searches[i].pageContent)]
      mmrIndexes == MmrSelect(<<>>, q, embeddingList, lambda, k)
  IN [r \in DOMAIN mmrIndexes |-> searches[mmrIndexes[r]]]

----------------------------------------------------------------------------
(* RAGPipeline: state *)

VARIABLES
  config,          \* this.config, the RAGConfig given to the constructor
  stores,          \* every vector store object created so far, by identity
  vectorStore,     \* this.vectorStore: 0 (null) or the identity of a store
  pineconeIndex,   \* the records of the remote index every PineconeStore reads
  promptTemplate,  \* this.promptTemplate: "null" or the pulled prompt
  graph,           \* this.graph: "undefined" or "compiled"
  init,            \* the initialize() call: where it is suspended, how it ended
  add,             \* the addNewDocuments() call
  queries          \* the query() calls, one slot per call

ragVars == <<config, stores, vectorStore, pineconeIndex, promptTemplate, graph,
             init, add, queries>>

(* Calls of DocumentLoaderFactory.loadDocuments and of the text splitter *)
(* on their own: state                                                     *)

VARIABLES
  loadCall,        \* a DocumentLoaderFactory.loadDocuments(config) call
  splitCall        \* a splitter construction and splitDocuments(docs) call

fnVars == <<loadCall, splitCall>>

(* SemanticSearchProcessor: state *)

VARIABLES
  sspConfig,       \* this.config and this.loderConfig of the processor
  sspStores,       \* every MemoryVectorStore the processor created, by identity
  sspVectorStore,  \* this.vectorStore: 0 (null) or the identity of a store
  sspDocuments,    \* this.documents
  proc,            \* the processDocuments() call
  search,          \* the search / searchWithScore / searchWithVectorsWithScore call
  detailed,        \* the processEmbeddedQueriesWithDetailedLogging() call
  batch            \* the batchSearchAdvanced() call

sspVars == <<sspConfig, sspStores, sspVectorStore, sspDocuments, proc, search,
             detailed, batch>>

(* CustomPDFProcessor: state *)

VARIABLES
  pdfConfig,       \* this.config of the processor
  pdfStores,       \* every MemoryVectorStore the processor created, by identity
  pdfVectorStore,  \* this.vectorStore: 0 (null) or the identity of a store
  pdfDocuments,    \* this.documents
  pdfCalls,        \* the processDocuments() and changePDF() calls, in call order
  pdfSearch        \* the search / searchWithScore call

pdfVars == <<pdfConfig, pdfStores, pdfVectorStore, pdfDocuments, pdfCalls, pdfSearch>>

TextLoaderConfig(content) == [type |-> "text", textConfig |-> [content |-> content]]
FileLoaderConfig(path, type) ==
  [type |-> "file", fileConfig |-> [path |-> path, type |-> type]]
WebLoaderConfig(url) == [type |-> "web", webConfig |-> [url |-> url, selector |-> "p"]]

MemoryStoreConfig == [type |-> "memory"]
PineconeStoreConfig == [type |-> "pinecone", pineconeConfig |-> [indexName |-> "idx"]]

ValidChunking == [chunkSize |-> 2, chunkOverlap |-> 1]
InvalidChunking == [chunkSize |-> 2, chunkOverlap |-> 2]

RagConfig(vs, loader, chunking) ==
  [vectorStore |-> vs, documentLoader |-> loader, chunking |-> chunking]

\* the configurations a pipeline is constructed with
PipelineConfigs ==
  { RagConfig(vs, WebLoaderConfig("https://example.org/post"), ValidChunking) :
      vs \in {MemoryStoreConfig, PineconeStoreConfig,
              [type |-> "pinecone"], [type |-> "chroma"]} }
  \cup
  { RagConfig(MemoryStoreConfig, FileLoaderConfig("/docs/missing.pdf", "pdf"),
              ValidChunking),
    RagConfig(MemoryStoreConfig, TextLoaderConfig(<<"b", "c", "d">>),
              InvalidChunking) }

\* the configurations addNewDocuments is called with
AddLoaderConfigs ==
  { TextLoaderConfig(<<"a", "b", "c", "d">>),
    FileLoaderConfig("/docs/missing.pdf", "pdf") }

Questions == { <<"a">>, <<"c", "d">> }

QueryIds == 1..MaxQueries

IdleInit ==
  [pc |-> "idle", calls |-> 0, outcome |-> "none", failedAt |-> "none",
   allSplits |-> <<>>, target |-> 0]

IdleAdd ==
  [pc |-> "idle", calls |-> 0, outcome |-> "none", cfg |-> [type |-> "none"],
   lifecycleAtCall |-> "none", allSplits |-> <<>>, target |-> 0]

IdleQuery ==
  [pc |-> "idle", question |-> <<>>, node |-> "none",
   state |-> [question |-> <<>>], store |-> 0,
   stages |-> <<>>, retrieved |-> <<>>, generateCalls |-> <<>>,
   result |-> [kind |-> "none"]]

RagInit ==
  /\ config \in PipelineConfigs
  /\ stores = <<>>
  /\ vectorStore = 0
  /\ pineconeIndex = <<>>
  /\ promptTemplate = "null"
  /\ graph = "undefined"
  /\ init = IdleInit
  /\ add = IdleAdd
  /\ queries = [q \in QueryIds |-> IdleQuery]

\* the lifecycle state of the orchestrator, read off the initialize() call:
\* never called, suspended at one of its awaits, resolved, or rejected
Lifecycle ==
  IF init.pc # "idle" THEN "INDEXING"
  ELSE IF init.calls = 0 THEN "UNINITIALIZED"
  ELSE IF init.outcome = "resolved" THEN "READY"
  ELSE "FAILED"

\* the records a store object reads: its own for a MemoryVectorStore, the
\* remote index for a PineconeStore
Records(id) ==
  IF stores[id].type = "memory" THEN stores[id].memoryVectors ELSE pineconeIndex

\* an add that skips the texts the store already holds
DedupRecordsAfterAdd(records, docs) ==
  records \o SelectSeq(docs, LAMBDA d : \A i \in DOMAIN records :
                                          records[i].pageContent # d.pageContent)

\* addVectors: the records of a store after documents were added to it
RecordsAfterAdd(records, docs) == records \o docs

\* vectorStore.addDocuments(docs) on store id, once the embeddings arrived
AddDocuments(id, docs) ==
  IF stores[id].type = "memory"
  THEN /\ stores' = [stores EXCEPT
                       ![id].memoryVectors = RecordsAfterAdd(@, docs)]
       /\ UNCHANGED pineconeIndex
  ELSE /\ pineconeIndex' = RecordsAfterAdd(pineconeIndex, docs)
       /\ UNCHANGED stores

----------------------------------------------------------------------------
(* RAGPipeline.initialize and loadAndIndexDocuments.  splitDocuments reads *)
(* and writes nothing shared, so its await is taken in the same step as    *)
(* the one of loadDocuments before it.                                     *)

InitReject(step) ==
  init' = [init EXCEPT !.pc = "idle", !.outcome = "rejected", !.failedAt = step,
                       !.allSplits = <<>>, !.target = 0]

\* initialize() is called: it calls createVectorStore and suspends
InitializeCall ==
  /\ init.pc = "idle"
  /\ init.calls < MaxInits
  /\ init' = [init EXCEPT !.pc = "createVectorStore", !.calls = @ + 1,
                          !.outcome = "pending", !.failedAt = "none"]
  /\ UNCHANGED <<pdfVars, fnVars, sspVars, config, stores, vectorStore, pineconeIndex, promptTemplate,
                 graph, add, queries>>

\* createVectorStore settled: the store is assigned and loadDocuments called
InitStoreCreated ==
  /\ init.pc = "createVectorStore"
  /\ LET r == CreateVectorStore(config.vectorStore) IN
     IF r.ok
     THEN /\ stores' = Append(stores, r.value)
          /\ vectorStore' = Len(stores) + 1
          /\ init' = [init EXCEPT !.pc = "loadDocuments"]
     ELSE /\ InitReject("createVectorStore")
          /\ UNCHANGED <<stores, vectorStore>>
  /\ UNCHANGED <<pdfVars, fnVars, sspVars, config, pineconeIndex, promptTemplate, graph, add, queries>>

\* loadDocuments settled; the splitter is constructed, splitDocuments settled;
\* addSplitDocuments calls this.vectorStore.addDocuments, which asks for the
\* embeddings of the chunks
InitLoaded ==
  /\ init.pc = "loadDocuments"
  /\ \E r \in LoadDocuments(config.documentLoader) :
       IF ~r.ok THEN InitReject("loadDocuments")
       ELSE IF ~SplitterConfigValid(config.chunking) THEN InitReject("splitter")
       ELSE init' = [init EXCEPT
                       !.pc = "addDocuments",
                       !.allSplits = SplitDocuments(r.value, config.chunking),
                       !.target = vectorStore]
  /\ UNCHANGED <<pdfVars, fnVars, sspVars, config, stores, vectorStore, pineconeIndex, promptTemplate,
                 graph, add, queries>>

\* the embeddings arrived and the records are stored; the prompt is pulled
InitAdded ==
  /\ init.pc = "addDocuments"
  /\ AddDocuments(init.target, init.allSplits)
  /\ init' = [init EXCEPT !.pc = "pull"]
  /\ UNCHANGED <<pdfVars, fnVars, sspVars, config, vectorStore, promptTemplate, graph, add, queries>>

\* the embedding call failed: addDocuments stores nothing and rejects
InitAddFailed ==
  /\ init.pc = "addDocuments"
  /\ InitReject("addDocuments")
  /\ UNCHANGED <<pdfVars, fnVars, sspVars, config, stores, vectorStore, pineconeIndex, promptTemplate,
                 graph, add, queries>>

\* the prompt arrived: buildGraph compiles the graph and initialize resolves
InitPulled ==
  /\ init.pc = "pull"
  /\ promptTemplate' = "rlm/rag-prompt"
  /\ graph' = "compiled"
  /\ init' = [init EXCEPT !.pc = "idle", !.outcome = "resolved",
                          !.allSplits = <<>>, !.target = 0]
  /\ UNCHANGED <<pdfVars, fnVars, sspVars, config, stores, vectorStore, pineconeIndex, add, queries>>

\* pulling the prompt failed
InitPullFailed ==
  /\ init.pc = "pull"
  /\ InitReject("pull")
  /\ UNCHANGED <<pdfVars, fnVars, sspVars, config, stores, vectorStore, pineconeIndex, promptTemplate,
                 graph, add, queries>>

----------------------------------------------------------------------------
(* RAGPipeline.addNewDocuments *)

AddSettle(outcome) ==
  add' = [add EXCEPT !.pc = "idle", !.outcome = outcome, !.allSplits = <<>>,
                     !.cfg = IdleAdd.cfg, !.target = 0,
                     !.lifecycleAtCall = "none"]

AddReject == AddSettle("rejected")

\* addNewDocuments(cfg) is called: it calls loadDocuments and suspends
AddCall(cfg) ==
  /\ add.pc = "idle"
  /\ add.calls < MaxAdds
  /\ add' = [IdleAdd EXCEPT !.pc = "loadDocuments", !.calls = add.calls + 1,
                            !.outcome = "pending", !.cfg = cfg,
                            !.lifecycleAtCall = Lifecycle]
  /\ UNCHANGED <<pdfVars, fnVars, sspVars, config, stores, vectorStore, pineconeIndex, promptTemplate,
                 graph, init, queries>>

\* loadDocuments settled; the splitter is constructed, splitDocuments settled;
\* this.vectorStore.addDocuments is called: on a null vectorStore that is a
\* TypeError
AddLoaded ==
  /\ add.pc = "loadDocuments"
  /\ \E r \in LoadDocuments(add.cfg) :
       IF ~r.ok \/ ~SplitterConfigValid(config.chunking) \/ vectorStore = 0
       THEN AddReject
       ELSE add' = [add EXCEPT
                      !.pc = "addDocuments",
                      !.allSplits = SplitDocuments(r.value, config.chunking),
                      !.target = vectorStore]
  /\ UNCHANGED <<pdfVars, fnVars, sspVars, config, stores, vectorStore, pineconeIndex, promptTemplate,
                 graph, init, queries>>

\* the embeddings arrived and the records are stored: addNewDocuments resolves
AddAdded ==
  /\ add.pc = "addDocuments"
  /\ AddDocuments(add.target, add.allSplits)
  /\ AddSettle("resolved")
  /\ UNCHANGED <<pdfVars, fnVars, sspVars, config, vectorStore, promptTemplate, graph, init, queries>>

\* the embedding call failed: nothing is stored
AddEmbedFailed ==
  /\ add.pc = "addDocuments"
  /\ AddReject
  /\ UNCHANGED <<pdfVars, fnVars, sspVars, config, stores, vectorStore, pineconeIndex, promptTemplate,
                 graph, init, queries>>

----------------------------------------------------------------------------
(* RAGPipeline.buildGraph and query.  A node function runs up to its first *)
(* await in the step that enters the node.  generate awaits the prompt and *)
(* then the language model, with nothing shared read in between: the two   *)
(* awaits are one step.                                                    *)

\* a graph whose edges run generate before retrieve
GenerateFirstEdgeFrom(node) ==
  CASE node = "__start__" -> "generate"
    [] node = "generate" -> "retrieve"
    [] node = "retrieve" -> "__end__"

\* the edges added to the StateGraph
EdgeFrom(node) ==
  CASE node = "__start__" -> "retrieve"
    [] node = "retrieve" -> "generate"
    [] node = "generate" -> "__end__"

\* the separator of join("\n\n")
ContextSeparator == <<"\n", "\n">>

PageContents(docs) == [i \in DOMAIN docs |-> docs[i].pageContent]

\* generate: state.context.map(doc => doc.pageContent).join("\n\n")
DocsContent(context) == JoinWith(PageContents(context), ContextSeparator)

\* the input of promptTemplate.invoke in generate
PromptInput(state) ==
  [question |-> state.question, context |-> DocsContent(state.context)]

\* the language model: its answer is a function of the messages it is given
LlmAnswer(messages) ==
  <<"answer", "to">> \o messages.question \o <<"from">> \o messages.context

\* one PipelineState shared by all invocations: the state of the first
\* invocation in flight
SharedNodeState(qs, q) ==
  qs[CHOOSE p \in DOMAIN qs :
       /\ qs[p].pc \notin {"idle", "done"}
       /\ \A o \in DOMAIN qs : qs[o].pc \notin {"idle", "done"} => p <= o].state

\* the state the node functions of one invocation are given
NodeState(qs, q) == qs[q].state

\* a response that reports the k asked of the retrieve node instead of the
\* number of documents in the context
RequestedCountResponse(state) ==
  [kind |-> "response",
   answer |-> IF Has(state, "answer") THEN state.answer ELSE <<"undefined">>,
   context |-> PageContents(state.context),
   retrievedDocs |-> RetrieveK]

\* the RAGResponse query builds from the final state of the graph
Response(state) ==
  [kind |-> "response",
   answer |-> IF Has(state, "answer") THEN state.answer ELSE <<"undefined">>,
   context |-> PageContents(state.context),
   retrievedDocs |-> Len(state.context)]

\* a catch block that hands back what the invocation had gathered so far
PartialQueryCatch(state, cause) ==
  [kind |-> "error", message |-> "RAG query failed", cause |-> cause,
   context |-> IF Has(state, "context") THEN PageContents(state.context)
               ELSE <<>>]

\* the catch block of query: whatever was thrown becomes one Error that
\* carries the thrown message
QueryCatch(state, cause) ==
  [kind |-> "error", message |-> "RAG query failed", cause |-> cause]

\* query rejects: the invocation's state is dropped with it
QueryFail(slot, cause) ==
  [IdleQuery EXCEPT !.pc = "done", !.question = slot.question,
                    !.node = slot.node,
                    !.stages = slot.stages,
                    !.result = QueryCatch(slot.state, cause)]

\* the invocation enters a node and runs it up to its first await; at
\* __end__ query builds its response from the final state
EnterNode(slot, node, state) ==
  LET at == [slot EXCEPT !.node = node, !.state = state] IN
  CASE node = "retrieve" ->
         IF vectorStore = 0 THEN QueryFail(at, "TypeError: vectorStore is null")
         ELSE [at EXCEPT !.pc = "embedQuery", !.store = vectorStore]
    [] node = "generate" ->
         IF ~Has(state, "context")
         THEN QueryFail([at EXCEPT !.stages = Append(@, "generate")],
                        "TypeError: context is undefined")
         ELSE [at EXCEPT !.pc = "llm", !.store = 0,
                         !.stages = Append(@, "generate"),
                         !.generateCalls = Append(@, PromptInput(state))]
    [] node = "__end__" ->
         IF ~Has(state, "context")
         THEN QueryFail(at, "TypeError: context is undefined")
         ELSE [at EXCEPT !.pc = "done", !.store = 0, !.result = Response(state)]

UnchangedByQuery ==
  UNCHANGED <<pdfVars, fnVars, sspVars, config, stores, vectorStore, pineconeIndex, promptTemplate, graph,
              init, add>>

\* query(question) is called: this.graph.invoke({question}); on an undefined
\* graph that is a TypeError, which the catch block rethrows
QueryCall(q, question) ==
  /\ queries[q].pc = "idle"
  /\ IF q = 1 THEN TRUE ELSE queries[q - 1].pc # "idle"
  /\ LET called == [IdleQuery EXCEPT !.question = question,
                                     !.state = [question |-> question],
                                     !.node = "__start__"]
     IN queries' = [queries EXCEPT ![q] =
          IF graph = "undefined"
          THEN QueryFail(called, "TypeError: graph is undefined")
          ELSE EnterNode(called, EdgeFrom("__start__"), called.state)]
  /\ UnchangedByQuery

\* the embedding of the question arrived: the store is searched and retrieve
\* returns {context: retrievedDocs}
QueryRetrieveEnd(q) ==
  /\ queries[q].pc = "embedQuery"
  /\ LET st == NodeState(queries, q)
         docs == SimilaritySearchVector(Records(queries[q].store),
                                        Embed(st.question), RetrieveK)
     IN queries' = [queries EXCEPT ![q] =
          EnterNode([@ EXCEPT !.stages = Append(@, "retrieve"),
                              !.retrieved = docs],
                    EdgeFrom("retrieve"), [context |-> docs] @@ st)]
  /\ UnchangedByQuery

\* the embedding of the question failed: retrieve throws
QueryRetrieveFailed(q) ==
  /\ queries[q].pc = "embedQuery"
  /\ queries' = [queries EXCEPT ![q] = QueryFail(@, "similaritySearch failed")]
  /\ UnchangedByQuery

\* the language model answered: generate returns {answer: response.content}
QueryGenerateEnd(q) ==
  /\ queries[q].pc = "llm"
  /\ LET st == NodeState(queries, q)
         messages == queries[q].generateCalls[Len(queries[q].generateCalls)]
     IN queries' = [queries EXCEPT ![q] =
          EnterNode(@, EdgeFrom("generate"),
                    [answer |-> LlmAnswer(messages)] @@ st)]
  /\ UnchangedByQuery

\* the language model call failed: generate throws
QueryGenerateFailed(q) ==
  /\ queries[q].pc = "llm"
  /\ queries' = [queries EXCEPT ![q] = QueryFail(@, "llm.invoke failed")]
  /\ UnchangedByQuery

----------------------------------------------------------------------------
(* SemanticSearchProcessor *)

\* the configurations a processor is constructed with
SspConfigs ==
  { [chunking |-> ValidChunking, loader |-> l] :
      l \in {WebLoaderConfig("https://example.org/post"),
             FileLoaderConfig("/docs/missing.pdf", "pdf")} }

SearchKinds == {"search", "searchWithScore", "searchWithVectorsWithScore"}

\* the batches processEmbeddedQueriesWithDetailedLogging is called with
QueryBatches == { <<q>> : q \in Questions } \cup { <<<<"a">>, <<"c", "d">>>> }

IdleProc == [pc |-> "idle", calls |-> 0, succeeded |-> 0, outcome |-> "none",
             allSplits |-> <<>>, target |-> 0]

\* the k a search is called with: up to the default
SearchKs == 1..DefaultSearchK

IdleSearch == [pc |-> "idle", kind |-> "none", query |-> <<>>, k |-> 0, store |-> 0,
               outcome |-> "none", error |-> "none", results |-> <<>>]

IdleBatch == [pc |-> "idle", queries |-> <<>>, options |-> [strategy |-> "none"],
              retriever |-> [searchType |-> "none"], store |-> 0,
              pending |-> {}, batchResults |-> <<>>,
              outcome |-> "none", error |-> "none", value |-> [results |-> <<>>]]

IdleDetailed == [pc |-> "idle", batch |-> <<>>, i |-> 0, resultCounts |-> <<>>,
                 outcome |-> "none", logged |-> "none"]

SspInit ==
  /\ sspConfig \in SspConfigs
  /\ sspStores = <<>>
  /\ sspVectorStore = 0
  /\ sspDocuments = <<>>
  /\ proc = IdleProc
  /\ search = IdleSearch
  /\ detailed = IdleDetailed
  /\ batch = IdleBatch

\* cosine similarity of two embeddings, squared, as <<numerator, denominator>>
Score(q, v) == <<Dot(q, v) * Dot(q, v), Dot(q, q) * Dot(v, v)>>

\* similaritySearchVectorWithScore: the best k records, each with its score
SimilaritySearchVectorWithScore(records, q, k) ==
  LET docs == SimilaritySearchVector(records, q, k)
  IN [i \in DOMAIN docs |-> <<docs[i], Score(q, Embed(docs[i].pageContent))>>]

ProcReject(step) ==
  proc' = [proc EXCEPT !.pc = "idle", !.outcome = "rejected",
                       !.allSplits = <<>>, !.target = 0]

\* processDocuments() is called: it calls loadDocuments and suspends
ProcessCall ==
  /\ proc.pc = "idle"
  /\ proc.calls < MaxProcess
  /\ proc' = [proc EXCEPT !.pc = "loadDocuments", !.calls = @ + 1,
                          !.outcome = "pending"]
  /\ UNCHANGED <<pdfVars, fnVars, ragVars, batch, sspConfig, sspStores, sspVectorStore, sspDocuments,
                 search, detailed>>

\* loadDocuments settled: this.documents is assigned, the splitter is
\* constructed and splitDocuments called; a load error is logged and rethrown
ProcLoaded ==
  /\ proc.pc = "loadDocuments"
  /\ \E r \in LoadDocuments(sspConfig.loader) :
       IF ~r.ok \/ ~SplitterConfigValid(sspConfig.chunking)
       THEN /\ ProcReject("loadDocuments")
            /\ sspDocuments' = IF r.ok THEN r.value ELSE sspDocuments
       ELSE /\ proc' = [proc EXCEPT
                          !.pc = "splitDocuments",
                          !.allSplits = SplitDocuments(r.value, sspConfig.chunking)]
            /\ sspDocuments' = r.value
  /\ UNCHANGED <<pdfVars, fnVars, ragVars, batch, sspConfig, sspStores, sspVectorStore, search, detailed>>

\* the chunks and the embeddings generator arrived: a new MemoryVectorStore
\* is assigned to this.vectorStore and addDocuments is called on it
ProcStoreCreated ==
  /\ proc.pc = "splitDocuments"
  /\ sspStores' = Append(sspStores, <<>>)
  /\ sspVectorStore' = Len(sspStores) + 1
  /\ proc' = [proc EXCEPT !.pc = "addDocuments", !.target = Len(sspStores) + 1]
  /\ UNCHANGED <<pdfVars, fnVars, ragVars, batch, sspConfig, sspDocuments, search, detailed>>

\* the embeddings arrived and the records are stored: processDocuments resolves
ProcAdded ==
  /\ proc.pc = "addDocuments"
  /\ sspStores' = [sspStores EXCEPT
                     ![proc.target] = RecordsAfterAdd(@, proc.allSplits)]
  /\ proc' = [proc EXCEPT !.pc = "idle", !.outcome = "resolved",
                          !.succeeded = @ + 1, !.allSplits = <<>>, !.target = 0]
  /\ UNCHANGED <<pdfVars, fnVars, ragVars, batch, sspConfig, sspVectorStore, sspDocuments, search,
                 detailed>>

\* the embedding call failed: the error is logged and rethrown; the store
\* assigned before the add stays assigned
ProcAddFailed ==
  /\ proc.pc = "addDocuments"
  /\ ProcReject("addDocuments")
  /\ UNCHANGED <<pdfVars, fnVars, ragVars, batch, sspConfig, sspStores, sspVectorStore, sspDocuments,
                 search, detailed>>

\* the guard of every search method: a null vectorStore throws
StoreInitialized(vs) == vs # 0

\* search, searchWithScore or searchWithVectorsWithScore is called: the text
\* kinds ask for the embedding of the query, the vector kind searches at once
SearchCall(kind, query, k) ==
  /\ search.pc \in {"idle", "done"}
  /\ search' =
       IF ~StoreInitialized(sspVectorStore)
       THEN [IdleSearch EXCEPT !.pc = "done", !.kind = kind, !.query = query,
                               !.k = k, !.outcome = "rejected",
                               !.error = "Vector store not initialized"]
       ELSE IF kind = "searchWithVectorsWithScore"
       THEN [IdleSearch EXCEPT
               !.pc = "done", !.kind = kind, !.query = query, !.k = k,
               !.outcome = "resolved",
               !.results = SimilaritySearchVectorWithScore(
                             sspStores[sspVectorStore], Embed(query), k)]
       ELSE [IdleSearch EXCEPT !.pc = "embedQuery", !.kind = kind, !.k = k,
                               !.query = query, !.store = sspVectorStore]
  /\ UNCHANGED <<pdfVars, fnVars, ragVars, batch, sspConfig, sspStores, sspVectorStore, sspDocuments,
                 proc, detailed>>

\* the embedding of the query arrived: the store is searched
SearchEmbedded ==
  /\ search.pc = "embedQuery"
  /\ search' = [search EXCEPT
       !.pc = "done", !.outcome = "resolved", !.store = 0,
       !.results =
         IF search.kind = "searchWithScore"
         THEN SimilaritySearchVectorWithScore(sspStores[search.store],
                                              Embed(search.query), search.k)
         ELSE SimilaritySearchVector(sspStores[search.store],
                                     Embed(search.query), search.k)]
  /\ UNCHANGED <<pdfVars, fnVars, ragVars, batch, sspConfig, sspStores, sspVectorStore, sspDocuments,
                 proc, detailed>>

\* the embedding of the query failed: the search rejects with that error
SearchEmbedFailed ==
  /\ search.pc = "embedQuery"
  /\ search' = [search EXCEPT !.pc = "done", !.outcome = "rejected", !.store = 0,
                              !.error = "embedding failed"]
  /\ UNCHANGED <<pdfVars, fnVars, ragVars, batch, sspConfig, sspStores, sspVectorStore, sspDocuments,
                 proc, detailed>>

\* how processEmbeddedQueriesWithDetailedLogging settles when an error was
\* thrown inside its try block: the catch block logs it and returns
DetailedCatch(call, error) ==
  [call EXCEPT !.pc = "done", !.outcome = "resolved", !.logged = error]

\* processEmbeddedQueriesWithDetailedLogging(qs) is called: it asks for
\* the embeddings of all the queries in one call
DetailedCall(qs) ==
  /\ detailed.pc \in {"idle", "done"}
  /\ detailed' = [IdleDetailed EXCEPT !.pc = "embedDocuments", !.batch = qs,
                                      !.outcome = "pending"]
  /\ UNCHANGED <<pdfVars, fnVars, ragVars, batch, sspConfig, sspStores, sspVectorStore, sspDocuments,
                 proc, search>>

\* the embeddings arrived: the loop over the queries starts
DetailedEmbedded ==
  /\ detailed.pc = "embedDocuments"
  /\ detailed' = [detailed EXCEPT !.pc = "search", !.i = 1]
  /\ UNCHANGED <<pdfVars, fnVars, ragVars, batch, sspConfig, sspStores, sspVectorStore, sspDocuments,
                 proc, search>>

\* the embedding call failed
DetailedEmbedFailed ==
  /\ detailed.pc = "embedDocuments"
  /\ detailed' = DetailedCatch(detailed, "embedding failed")
  /\ UNCHANGED <<pdfVars, fnVars, ragVars, batch, sspConfig, sspStores, sspVectorStore, sspDocuments,
                 proc, search>>

\* one turn of the loop: searchWithVectorsWithScore(embedding) of query i;
\* after the last query the summary is logged and the call returns
DetailedSearchStep ==
  /\ detailed.pc = "search"
  /\ detailed' =
       IF ~StoreInitialized(sspVectorStore)
       THEN DetailedCatch(detailed, "Vector store not initialized")
       ELSE LET found == SimilaritySearchVectorWithScore(
                           sspStores[sspVectorStore],
                           Embed(detailed.batch[detailed.i]), DefaultSearchK)
                counts == Append(detailed.resultCounts, Len(found))
            IN IF detailed.i = Len(detailed.batch)
               THEN [detailed EXCEPT !.pc = "done", !.outcome = "resolved",
                                     !.resultCounts = counts]
               ELSE [detailed EXCEPT !.i = @ + 1, !.resultCounts = counts]
  /\ UNCHANGED <<pdfVars, fnVars, ragVars, batch, sspConfig, sspStores, sspVectorStore, sspDocuments,
                 proc, search>>

----------------------------------------------------------------------------
(* SemanticSearchProcessor.batchSearchAdvanced *)

\* the k of a VectorStoreRetriever constructed without one
RetrieverDefaultK == 4

\* the lists of queries batchSearchAdvanced is called with: a query may
\* occur twice
BatchQueryLists == UNION { [1..n -> Questions] : n \in 1..MaxBatch }

\* the options batchSearchAdvanced is called with (mmrLambda in tenths,
\* scoreThreshold in thousandths); a field left out is undefined
BatchOptions ==
  { [strategy |-> "similarity", k |-> 1],
    [strategy |-> "mmr", k |-> 1, mmrLambda |-> 10],
    [strategy |-> "mmr", k |-> 2, fetchK |-> 1],
    [strategy |-> "mmr"],
    [k |-> 1],
    [strategy |-> "threshold", k |-> 2, scoreThreshold |-> 500] }

\* the destructuring defaults of batchSearchAdvanced
OptionK(options) == IF Has(options, "k") THEN options.k ELSE 2
OptionStrategy(options) == IF Has(options, "strategy") THEN options.strategy ELSE "mmr"
OptionLambda(options) == IF Has(options, "mmrLambda") THEN options.mmrLambda ELSE 7
OptionFetchK(options) ==
  IF Has(options, "fetchK") THEN options.fetchK ELSE OptionK(options) * 2

\* the strategy switch: the retriever asRetriever builds, or the error thrown
ConfigureRetriever(options) ==
  CASE OptionStrategy(options) = "similarity" ->
         Ok([searchType |-> "similarity", k |-> OptionK(options)])
    [] OptionStrategy(options) = "mmr" ->
         Ok([searchType |-> "mmr", k |-> RetrieverDefaultK,
             fetchK |-> OptionFetchK(options), lambda |-> OptionLambda(options)])
    [] OTHER -> Err("Unknown strategy")

\* what the retriever returns for one query once its embedding arrived
RetrieverDocuments(retriever, records, q) ==
  IF retriever.searchType = "mmr"
  THEN MaxMarginalRelevanceSearch(records, q, retriever.k, retriever.fetchK,
                                  retriever.lambda)
  ELSE SimilaritySearchVector(records, q, retriever.k)

\* results[query] = batchResults[index], in the order of the queries: a
\* query text that occurs twice keeps the result of its last occurrence
ResultsByQuery(qs, batchResults) ==
  [q \in Range(qs) |->
     batchResults[MaxOf({i \in DOMAIN qs : qs[i] = q})]]

\* the value batchSearchAdvanced returns
BatchValue(qs, options, batchResults) ==
  [results |-> ResultsByQuery(qs, batchResults),
   metadata |-> [strategy |-> OptionStrategy(options),
                 totalQueries |-> Len(qs),
                 totalResults |-> SumOver([i \in DOMAIN qs |-> Len(batchResults[i])],
                                          DOMAIN qs)]]

BatchReject(call, error) ==
  [call EXCEPT !.pc = "done", !.outcome = "rejected", !.error = error,
               !.pending = {}, !.batchResults = <<>>, !.store = 0]

\* batchSearchAdvanced(qs, options) is called: the guard, the defaults and
\* the strategy switch run, then retriever.batch starts every query at once
BatchCall(qs, options) ==
  /\ batch.pc \in {"idle", "done"}
  /\ LET call == [IdleBatch EXCEPT !.queries = qs, !.options = options]
         made == ConfigureRetriever(options)
     IN batch' =
          IF ~StoreInitialized(sspVectorStore)
          THEN BatchReject(call, "Vector store not initialized")
          ELSE IF ~made.ok THEN BatchReject(call, made.error)
          ELSE [call EXCEPT !.pc = "batch", !.outcome = "pending",
                            !.retriever = made.value,
                            !.store = sspVectorStore,
                            !.pending = DOMAIN qs,
                            !.batchResults = [i \in DOMAIN qs |-> <<>>]]
  /\ UNCHANGED <<pdfVars, fnVars, ragVars, sspConfig, sspStores, sspVectorStore, sspDocuments,
                 proc, search, detailed>>

\* the embedding of query i arrived: its documents are retrieved; with the
\* last query done, the results are keyed by query and returned
BatchQueryEmbedded(i) ==
  /\ batch.pc = "batch"
  /\ i \in batch.pending
  /\ LET docs == RetrieverDocuments(batch.retriever, sspStores[batch.store],
                                    Embed(batch.queries[i]))
         got == [batch.batchResults EXCEPT ![i] = docs]
     IN batch' =
          IF batch.pending = {i}
          THEN [batch EXCEPT !.pc = "done", !.outcome = "resolved",
                             !.pending = {}, !.batchResults = <<>>, !.store = 0,
                             !.value = BatchValue(batch.queries, batch.options, got)]
          ELSE [batch EXCEPT !.pending = @ \ {i}, !.batchResults = got]
  /\ UNCHANGED <<pdfVars, fnVars, ragVars, sspConfig, sspStores, sspVectorStore, sspDocuments,
                 proc, search, detailed>>

\* the embedding of query i failed: retriever.batch rejects, the error is
\* logged and rethrown, and the documents of the other queries are dropped
BatchQueryFailed(i) ==
  /\ batch.pc = "batch"
  /\ i \in batch.pending
  /\ batch' = BatchReject(batch, "embedding failed")
  /\ UNCHANGED <<pdfVars, fnVars, ragVars, sspConfig, sspStores, sspVectorStore, sspDocuments,
                 proc, search, detailed>>

----------------------------------------------------------------------------
(* CustomPDFProcessor *)

\* the file names the processor is configured with, and those of them that
\* exist under documentsPath
PdfFileNames == {"A.pdf", "B.pdf", "Missing.pdf"}
ExistingPdfs == {"A.pdf", "B.pdf"}

\* path.join(__dirname, this.config.documentsPath, this.config.pdfFileName)
PdfPath(fileName) == <<"../../src/assets/documents", fileName>>

\* the text of the one page PDFLoader reads from a file
PdfContent(fileName) == IF fileName = "A.pdf" THEN <<"a", "b">> ELSE <<"c", "d">>

\* pdfLoader.load(): the pages, each with its path as source, or a read error
PdfLoaderLoad(fileName) ==
  {Ok(<<MkDoc(PdfContent(fileName), PdfPath(fileName))>>), Err("read failed")}

PdfConfigs ==
  { [pdfFileName |-> f, chunkSize |-> ValidChunking.chunkSize,
     chunkOverlap |-> ValidChunking.chunkOverlap] : f \in PdfFileNames }

PdfChunking(cfg) == [chunkSize |-> cfg.chunkSize, chunkOverlap |-> cfg.chunkOverlap]

IdlePdfCall == [pc |-> "idle", kind |-> "none", file |-> "none", outcome |-> "none",
                failedAt |-> "none", allSplits |-> <<>>, target |-> 0]

PdfSearchKinds == {"search", "searchWithScore"}

IdlePdfSearch == [pc |-> "idle", kind |-> "none", query |-> <<>>, k |-> 0,
                  store |-> 0, configured |-> "none",
                  outcome |-> "none", error |-> "none", results |-> <<>>]

\* the processor, constructed with some file name and not used
PdfInit ==
  /\ pdfConfig \in PdfConfigs
  /\ pdfStores = <<>>
  /\ pdfVectorStore = 0
  /\ pdfDocuments = <<>>
  /\ pdfCalls = [c \in 1..MaxPdfCalls |-> IdlePdfCall]
  /\ pdfSearch = IdlePdfSearch

\* the processor, constructed with the default file name and not used
PdfUnused ==
  /\ pdfConfig = [pdfFileName |-> "A.pdf", chunkSize |-> ValidChunking.chunkSize,
                  chunkOverlap |-> ValidChunking.chunkOverlap]
  /\ pdfStores = <<>>
  /\ pdfVectorStore = 0
  /\ pdfDocuments = <<>>
  /\ pdfCalls = [c \in 1..MaxPdfCalls |-> IdlePdfCall]
  /\ pdfSearch = IdlePdfSearch

\* a processDocuments call rejects: the error is logged and rethrown
PdfReject(call, step) ==
  [call EXCEPT !.pc = "done", !.outcome = "rejected", !.failedAt = step,
               !.allSplits = <<>>, !.target = 0]

\* processDocuments runs up to its first await: loadPDFDocuments builds the
\* path from the file name configured now and throws when no such file
\* exists, otherwise pdfLoader.load() is awaited
PdfStartProcess(kind, fileName) ==
  LET call == [IdlePdfCall EXCEPT !.kind = kind, !.file = fileName] IN
  IF fileName \notin ExistingPdfs THEN PdfReject(call, "load")
  ELSE [call EXCEPT !.pc = "load", !.outcome = "pending"]

\* the calls are numbered in the order they are made
PdfNextCall(c) ==
  /\ pdfCalls[c].pc = "idle"
  /\ \A b \in 1..(c - 1) : pdfCalls[b].pc # "idle"

\* processDocuments() is called
PdfProcessCall(c) ==
  /\ PdfNextCall(c)
  /\ pdfCalls' = [pdfCalls EXCEPT
                    ![c] = PdfStartProcess("processDocuments", pdfConfig.pdfFileName)]
  /\ UNCHANGED <<fnVars, ragVars, sspVars, pdfConfig, pdfStores, pdfVectorStore,
                 pdfDocuments, pdfSearch>>

\* changePDF(fileName) is called: the file name is set, the store and the
\* documents are cleared, and processDocuments is called
PdfChangeCall(c, fileName) ==
  /\ PdfNextCall(c)
  /\ pdfConfig' = [pdfConfig EXCEPT !.pdfFileName = fileName]
  /\ pdfVectorStore' = 0
  /\ pdfDocuments' = <<>>
  /\ pdfCalls' = [pdfCalls EXCEPT ![c] = PdfStartProcess("changePDF", fileName)]
  /\ UNCHANGED <<fnVars, ragVars, sspVars, pdfStores, pdfSearch>>

\* pdfLoader.load() of call c settled: this.documents is assigned, the
\* splitter is constructed and splitDocuments called
PdfLoaded(c) ==
  /\ pdfCalls[c].pc = "load"
  /\ \E r \in PdfLoaderLoad(pdfCalls[c].file) :
       IF ~r.ok
       THEN /\ pdfCalls' = [pdfCalls EXCEPT ![c] = PdfReject(@, "load")]
            /\ UNCHANGED pdfDocuments
       ELSE /\ pdfDocuments' = r.value
            /\ pdfCalls' = [pdfCalls EXCEPT ![c] =
                  IF ~SplitterConfigValid(PdfChunking(pdfConfig))
                  THEN PdfReject(@, "split")
                  ELSE [@ EXCEPT !.pc = "split",
                                 !.allSplits = SplitDocuments(r.value,
                                                              PdfChunking(pdfConfig))]]
  /\ UNCHANGED <<fnVars, ragVars, sspVars, pdfConfig, pdfStores, pdfVectorStore,
                 pdfSearch>>

\* the chunks of call c arrived: a new MemoryVectorStore is assigned to
\* this.vectorStore and addDocuments is called on it
PdfStoreCreated(c) ==
  /\ pdfCalls[c].pc = "split"
  /\ pdfStores' = Append(pdfStores, <<>>)
  /\ pdfVectorStore' = Len(pdfStores) + 1
  /\ pdfCalls' = [pdfCalls EXCEPT ![c] = [@ EXCEPT !.pc = "add",
                                                   !.target = Len(pdfStores) + 1]]
  /\ UNCHANGED <<fnVars, ragVars, sspVars, pdfConfig, pdfDocuments, pdfSearch>>

\* the embeddings of call c arrived and the records are stored: the call
\* resolves
PdfAdded(c) ==
  /\ pdfCalls[c].pc = "add"
  /\ pdfStores' = [pdfStores EXCEPT
                     ![pdfCalls[c].target] = RecordsAfterAdd(@, pdfCalls[c].allSplits)]
  /\ pdfCalls' = [pdfCalls EXCEPT ![c] = [@ EXCEPT !.pc = "done",
                                                   !.outcome = "resolved",
                                                   !.allSplits = <<>>, !.target = 0]]
  /\ UNCHANGED <<fnVars, ragVars, sspVars, pdfConfig, pdfVectorStore, pdfDocuments,
                 pdfSearch>>

\* the embedding call of call c failed: the store assigned before the add
\* stays assigned
PdfAddFailed(c) ==
  /\ pdfCalls[c].pc = "add"
  /\ pdfCalls' = [pdfCalls EXCEPT ![c] = PdfReject(@, "add")]
  /\ UNCHANGED <<fnVars, ragVars, sspVars, pdfConfig, pdfStores, pdfVectorStore,
                 pdfDocuments, pdfSearch>>

\* search or searchWithScore is called: a null vectorStore throws,
\* otherwise the embedding of the query is asked for
PdfSearchCall(kind, query, k) ==
  /\ pdfSearch.pc \in {"idle", "done"}
  /\ LET call == [IdlePdfSearch EXCEPT !.kind = kind, !.query = query, !.k = k,
                                       !.configured = pdfConfig.pdfFileName]
     IN pdfSearch' =
          IF ~StoreInitialized(pdfVectorStore)
          THEN [call EXCEPT !.pc = "done", !.outcome = "rejected",
                            !.error = "Vector store not initialized"]
          ELSE [call EXCEPT !.pc = "embedQuery", !.outcome = "pending",
                            !.store = pdfVectorStore]
  /\ UNCHANGED <<fnVars, ragVars, sspVars, pdfConfig, pdfStores, pdfVectorStore,
                 pdfDocuments, pdfCalls>>

\* the embedding of the query arrived: the store is searched
PdfSearchEmbedded ==
  /\ pdfSearch.pc = "embedQuery"
  /\ pdfSearch' = [pdfSearch EXCEPT
       !.pc = "done", !.outcome = "resolved", !.store = 0,
       !.results =
         IF pdfSearch.kind = "searchWithScore"
         THEN SimilaritySearchVectorWithScore(pdfStores[pdfSearch.store],
                                              Embed(pdfSearch.query), pdfSearch.k)
         ELSE SimilaritySearchVector(pdfStores[pdfSearch.store],
                                     Embed(pdfSearch.query), pdfSearch.k)]
  /\ UNCHANGED <<fnVars, ragVars, sspVars, pdfConfig, pdfStores, pdfVectorStore,
                 pdfDocuments, pdfCalls>>

\* the embedding of the query failed: the search rejects with that error
PdfSearchEmbedFailed ==
  /\ pdfSearch.pc = "embedQuery"
  /\ pdfSearch' = [pdfSearch EXCEPT !.pc = "done", !.outcome = "rejected",
                                    !.store = 0, !.error = "embedding failed"]
  /\ UNCHANGED <<fnVars, ragVars, sspVars, pdfConfig, pdfStores, pdfVectorStore,
                 pdfDocuments, pdfCalls>>

----------------------------------------------------------------------------
(* DocumentLoaderFactory.loadDocuments, called on its own *)

RECURSIVE SeqsUpTo(_, _)
\* the sequences over S of length at most n
SeqsUpTo(S, n) ==
  IF n = 0 THEN {<<>>}
  ELSE LET shorter == SeqsUpTo(S, n - 1)
       IN shorter \cup {Append(t, c) : t \in {u \in shorter : Len(u) = n - 1}, c \in S}

\* the loader configurations loadDocuments is called with: every kind, with
\* and without its parameters, files that exist and files that do not
LoaderConfigs ==
  { WebLoaderConfig("https://example.org/post"), [type |-> "web"],
    [type |-> "file"], [type |-> "text"], [type |-> "database"] }
  \cup { FileLoaderConfig(path, type) :
           path \in ExistingFiles \cup {"/docs/missing.pdf"},
           type \in {"pdf", "txt", "json"} }
  \cup { TextLoaderConfig(content) : content \in SeqsUpTo(Alphabet, MaxTextLen) }

IdleSplitCall == [pc |-> "idle", text |-> <<>>,
                  chunking |-> [chunkSize |-> 0, chunkOverlap |-> 0],
                  outcome |-> "none", chunks |-> <<>>]

IdleLoadCall == [pc |-> "idle", config |-> [type |-> "none"], effects |-> <<>>,
                 loader |-> [kind |-> "none"], outcome |-> "none",
                 error |-> "none", documents |-> <<>>]

\* what createLoader does to the outside on its way: the existence check of
\* the 'file' case, and the reader it constructs
CreateLoaderEffects(cfg) ==
  IF cfg.type = "file" /\ Has(cfg, "fileConfig")
  THEN <<"fs.existsSync">>
       \o (IF CreateLoader(cfg).ok THEN <<"new reader">> ELSE <<>>)
  ELSE IF CreateLoader(cfg).ok /\ cfg.type = "web" THEN <<"new reader">>
  ELSE <<>>

\* loadDocuments(config) is called: createLoader runs; what it throws
\* rejects the call, otherwise loader.load() is called
LoadCreateLoader ==
  /\ loadCall.pc = "idle"
  /\ LET made == CreateLoader(loadCall.config)
         at == [loadCall EXCEPT !.effects = CreateLoaderEffects(loadCall.config)]
     IN loadCall' =
          IF made.ok
          THEN [at EXCEPT !.pc = "load", !.loader = made.value,
                          !.outcome = "pending",
                          !.effects = Append(@, "loader.load")]
          ELSE [at EXCEPT !.pc = "done", !.outcome = "rejected",
                          !.error = made.error]
  /\ UNCHANGED <<pdfVars, ragVars, sspVars, splitCall>>

\* loader.load() settled
LoadSettled ==
  /\ loadCall.pc = "load"
  /\ \E r \in LoaderLoad(loadCall.loader) :
       loadCall' =
         IF r.ok THEN [loadCall EXCEPT !.pc = "done", !.outcome = "resolved",
                                       !.documents = r.value]
         ELSE [loadCall EXCEPT !.pc = "done", !.outcome = "rejected",
                               !.error = r.error]
  /\ UNCHANGED <<pdfVars, ragVars, sspVars, splitCall>>

----------------------------------------------------------------------------
(* RecursiveCharacterTextSplitter, constructed and called on its own as    *)
(* loadAndIndexDocuments does: new RecursiveCharacterTextSplitter({        *)
(* chunkSize, chunkOverlap }) and splitDocuments of one document           *)

\* the characters of a content: letters and the blank
SplitAlphabet == {"a", "b", " "}

SplitContents == SeqsUpTo(SplitAlphabet, MaxSplitLen)

\* chunk configurations, those the constructor refuses included
ChunkConfigs ==
  { [chunkSize |-> size, chunkOverlap |-> overlap] :
      size \in 1..MaxChunkSize, overlap \in 0..MaxChunkSize }

\* the constructor: it throws when chunkOverlap >= chunkSize, and otherwise
\* splitDocuments is called
SplitConstruct ==
  /\ splitCall.pc = "idle"
  /\ splitCall' =
       IF SplitterConfigValid(splitCall.chunking)
       THEN [splitCall EXCEPT !.pc = "split", !.outcome = "pending"]
       ELSE [splitCall EXCEPT !.pc = "done", !.outcome = "rejected"]
  /\ UNCHANGED <<pdfVars, ragVars, sspVars, loadCall>>

\* splitDocuments settled with the chunks of the document
SplitSettled ==
  /\ splitCall.pc = "split"
  /\ splitCall' =
       [splitCall EXCEPT
          !.pc = "done", !.outcome = "resolved",
          !.chunks = SplitDocuments(<<MkDoc(splitCall.text, "text-input")>>,
                                    splitCall.chunking)]
  /\ UNCHANGED <<pdfVars, ragVars, sspVars, loadCall>>

----------------------------------------------------------------------------
(* The pipeline's specification *)

vars == <<ragVars, sspVars, fnVars, pdfVars>>

\* no call of the loader factory or of the splitter on its own
FnUnused ==
  /\ loadCall = IdleLoadCall
  /\ splitCall = IdleSplitCall

\* the processor, constructed and not used
SspUnused ==
  /\ sspConfig = [chunking |-> ValidChunking,
                  loader |-> WebLoaderConfig("https://example.org/post")]
  /\ sspStores = <<>>
  /\ sspVectorStore = 0
  /\ sspDocuments = <<>>
  /\ proc = IdleProc
  /\ search = IdleSearch
  /\ detailed = IdleDetailed
  /\ batch = IdleBatch

\* the pipeline, constructed and not used
RagUnused ==
  /\ config = RagConfig(MemoryStoreConfig,
                        WebLoaderConfig("https://example.org/post"), ValidChunking)
  /\ stores = <<>>
  /\ vectorStore = 0
  /\ pineconeIndex = <<>>
  /\ promptTemplate = "null"
  /\ graph = "undefined"
  /\ init = IdleInit
  /\ add = IdleAdd
  /\ queries = [q \in QueryIds |-> IdleQuery]

Init == RagInit /\ SspUnused /\ FnUnused /\ PdfUnused

Next ==
  \/ InitializeCall
  \/ InitStoreCreated
  \/ InitLoaded
  \/ InitAdded
  \/ InitAddFailed
  \/ InitPulled
  \/ InitPullFailed
  \/ \E cfg \in AddLoaderConfigs : AddCall(cfg)
  \/ AddLoaded
  \/ AddAdded
  \/ AddEmbedFailed
  \/ \E q \in QueryIds, question \in Questions : QueryCall(q, question)
  \/ \E q \in QueryIds : QueryRetrieveEnd(q)
  \/ \E q \in QueryIds : QueryRetrieveFailed(q)
  \/ \E q \in QueryIds : QueryGenerateEnd(q)
  \/ \E q \in QueryIds : QueryGenerateFailed(q)

Spec == Init /\ [][Next]_vars

\* The pipeline as main.ts drives it: initialize() is called once; documents
\* are added and queries are made at any time, concurrently
InitializeOnce ==
  /\ init.calls = 0
  /\ InitializeCall

NextOnce ==
  \/ InitializeOnce
  \/ InitStoreCreated
  \/ InitLoaded
  \/ InitAdded
  \/ InitAddFailed
  \/ InitPulled
  \/ InitPullFailed
  \/ \E cfg \in AddLoaderConfigs : AddCall(cfg)
  \/ AddLoaded
  \/ AddAdded
  \/ AddEmbedFailed
  \/ \E q \in QueryIds, question \in Questions : QueryCall(q, question)
  \/ \E q \in QueryIds : QueryRetrieveEnd(q)
  \/ \E q \in QueryIds : QueryRetrieveFailed(q)
  \/ \E q \in QueryIds : QueryGenerateEnd(q)
  \/ \E q \in QueryIds : QueryGenerateFailed(q)

SpecOnce == Init /\ [][NextOnce]_vars

\* The SemanticSearchProcessor's specification
InitSsp == SspInit /\ RagUnused /\ FnUnused /\ PdfUnused

NextSsp ==
  \/ ProcessCall
  \/ ProcLoaded
  \/ ProcStoreCreated
  \/ ProcAdded
  \/ ProcAddFailed
  \/ \E kind \in SearchKinds, query \in Questions, k \in SearchKs :
       SearchCall(kind, query, k)
  \/ SearchEmbedded
  \/ SearchEmbedFailed
  \/ \E qs \in QueryBatches : DetailedCall(qs)
  \/ DetailedEmbedded
  \/ DetailedEmbedFailed
  \/ DetailedSearchStep

SpecSsp == InitSsp /\ [][NextSsp]_vars

\* The specification of DocumentLoaderFactory.loadDocuments
InitLoader ==
  /\ RagUnused
  /\ SspUnused
  /\ PdfUnused
  /\ splitCall = IdleSplitCall
  /\ \E cfg \in LoaderConfigs : loadCall = [IdleLoadCall EXCEPT !.config = cfg]

NextLoader == LoadCreateLoader \/ LoadSettled

SpecLoader == InitLoader /\ [][NextLoader]_vars

\* The specification of the splitter called on its own
InitSplit ==
  /\ RagUnused
  /\ SspUnused
  /\ PdfUnused
  /\ loadCall = IdleLoadCall
  /\ \E text \in SplitContents, chunking \in ChunkConfigs :
       splitCall = [IdleSplitCall EXCEPT !.text = text, !.chunking = chunking]

NextSplit == SplitConstruct \/ SplitSettled

SpecSplit == InitSplit /\ [][NextSplit]_vars

\* The specification of the CustomPDFProcessor: its calls may overlap,
\* nothing in the class keeps a call from starting while another is awaited
InitPdf == PdfInit /\ RagUnused /\ SspUnused /\ FnUnused

PdfCallStep(c) ==
  \/ PdfProcessCall(c)
  \/ \E fileName \in PdfFileNames : PdfChangeCall(c, fileName)

NextPdf ==
  \/ \E c \in 1..MaxPdfCalls : PdfCallStep(c)
  \/ \E c \in 1..MaxPdfCalls : PdfLoaded(c)
  \/ \E c \in 1..MaxPdfCalls : PdfStoreCreated(c)
  \/ \E c \in 1..MaxPdfCalls : PdfAdded(c)
  \/ \E c \in 1..MaxPdfCalls : PdfAddFailed(c)
  \/ \E kind \in PdfSearchKinds, query \in Questions :
       PdfSearchCall(kind, query, DefaultSearchK)
  \/ PdfSearchEmbedded
  \/ PdfSearchEmbedFailed

SpecPdf == InitPdf /\ [][NextPdf]_vars

\* The same with every processDocuments and changePDF call awaited before
\* the next one is made
NoPdfCallInFlight == \A c \in 1..MaxPdfCalls : pdfCalls[c].pc \in {"idle", "done"}

NextPdfAwaited ==
  \/ \E c \in 1..MaxPdfCalls : NoPdfCallInFlight /\ PdfCallStep(c)
  \/ \E c \in 1..MaxPdfCalls : PdfLoaded(c)
  \/ \E c \in 1..MaxPdfCalls : PdfStoreCreated(c)
  \/ \E c \in 1..MaxPdfCalls : PdfAdded(c)
  \/ \E c \in 1..MaxPdfCalls : PdfAddFailed(c)
  \/ \E kind \in PdfSearchKinds, query \in Questions :
       PdfSearchCall(kind, query, DefaultSearchK)
  \/ PdfSearchEmbedded
  \/ PdfSearchEmbedFailed

SpecPdfAwaited == InitPdf /\ [][NextPdfAwaited]_vars

\* The specification of batchSearchAdvanced on a SemanticSearchProcessor
NextBatch ==
  \/ ProcessCall
  \/ ProcLoaded
  \/ ProcStoreCreated
  \/ ProcAdded
  \/ ProcAddFailed
  \/ \E qs \in BatchQueryLists, options \in BatchOptions : BatchCall(qs, options)
  \/ \E i \in 1..MaxBatch : BatchQueryEmbedded(i)
  \/ \E i \in 1..MaxBatch : BatchQueryFailed(i)

SpecBatch == InitSsp /\ [][NextBatch]_vars

----------------------------------------------------------------------------
(* Claims about the RAGPipeline lifecycle *)

\* query q is called in this step
QueryCalled(q) == queries[q].pc = "idle" /\ queries'[q].pc # "idle"

\* query q is rejected at the call, before any node of the graph ran
RejectedAtCall(q) ==
  /\ queries'[q].pc = "done"
  /\ queries'[q].result.kind = "error"
  /\ queries'[q].stages = <<>>

\* query q returns a response in this step
QueryResponds(q) ==
  /\ queries[q].pc # "done"
  /\ queries'[q].pc = "done"
  /\ queries'[q].result.kind = "response"

\* the addNewDocuments call resolves in this step
AddResolves == add.pc = "addDocuments" /\ add'.outcome = "resolved"

\* C1: a query called while the orchestrator is not READY (never
\* initialized, initializing, or failed) is rejected: it returns no response
\* and runs neither retrieve nor generate.
C1_QueryBeforeReadyRejected ==
  [][\A q \in QueryIds :
       (QueryCalled(q) /\ Lifecycle # "READY") => RejectedAtCall(q)]_vars

\* C2: once initialize has raised an error the orchestrator is FAILED and
\* nothing is usable: a query called then gets no response, and an
\* addDocuments called then does not succeed.
C2_FailedIsUnusable ==
  [][/\ \A q \in QueryIds :
          (QueryCalled(q) /\ Lifecycle = "FAILED") => RejectedAtCall(q)
     /\ (Lifecycle = "FAILED" /\ add.lifecycleAtCall = "FAILED") => ~AddResolves
     /\ (init.pc # "idle" /\ init'.outcome = "rejected") => Lifecycle' = "FAILED"
    ]_vars

LifecycleMoves ==
  { <<"UNINITIALIZED", "INDEXING">>, <<"INDEXING", "READY">>,
    <<"INDEXING", "FAILED">> }

\* C3: the lifecycle only moves UNINITIALIZED -> INDEXING -> READY or
\* INDEXING -> FAILED; READY is never left, FAILED is terminal, and once
\* queries can run the index they read is never replaced.
C3_LifecycleIsOneWay ==
  [][/\ Lifecycle' # Lifecycle => <<Lifecycle, Lifecycle'>> \in LifecycleMoves
     /\ graph = "compiled" => vectorStore' = vectorStore
    ]_vars

\* C4: addDocuments succeeds only when called in READY; then the state stays
\* READY and the index is extended: the records it held, followed by exactly
\* the new chunks.
C4_AddOnlyInReady ==
  [][AddResolves =>
       /\ add.lifecycleAtCall = "READY"
       /\ Lifecycle' = "READY"
       /\ \A t \in {add.target}, new \in {add.allSplits} :
            Records(t)' = Records(t) \o new
    ]_vars

\* C8: a loader or chunker error during initialize (an invalid chunk
\* configuration included) leaves the orchestrator FAILED with an index that
\* holds no record: add is only invoked after loading and chunking.
C8_LoaderErrorLeavesIndexEmpty ==
  [][(init.pc = "loadDocuments" /\ init'.outcome = "rejected") =>
       /\ Lifecycle' = "FAILED"
       /\ init'.failedAt \in {"loadDocuments", "splitter"}
       /\ \A t \in {vectorStore} : t # 0 /\ Records(t)' = <<>>
    ]_vars

----------------------------------------------------------------------------
(* Claims about query *)

IsPrefix(s, t) == Len(s) <= Len(t) /\ s = SubSeq(t, 1, Len(s))

RECURSIVE Concatenated(_)
\* the texts one after the other, "\n\n" between two of them
Concatenated(texts) ==
  IF Len(texts) = 0 THEN <<>>
  ELSE IF Len(texts) = 1 THEN texts[1]
  ELSE Concatenated(SubSeq(texts, 1, Len(texts) - 1))
         \o <<"\n", "\n">> \o texts[Len(texts)]

\* the texts of the chunks the retrieve stage of a query returned
RetrievedTexts(slot) == [i \in DOMAIN slot.retrieved |-> slot.retrieved[i].pageContent]

\* C5: every query runs retrieve, then generate: generate starts only after
\* retrieve completed, it is invoked once, with the query's question and the
\* concatenation of exactly the retrieved chunks, and the response's context
\* is the texts of those chunks in retrieval order.
C5_RetrieveThenGenerate ==
  \A q \in QueryIds :
    LET slot == queries[q] IN
    /\ IsPrefix(slot.stages, <<"retrieve", "generate">>)
    /\ Len(slot.generateCalls) <= 1
    /\ slot.generateCalls # <<>> =>
         /\ slot.stages = <<"retrieve", "generate">>
         /\ slot.generateCalls[1] =
              [question |-> slot.question,
               context |-> Concatenated(RetrievedTexts(slot))]
    /\ slot.result.kind = "response" =>
         /\ slot.stages = <<"retrieve", "generate">>
         /\ Len(slot.generateCalls) = 1
         /\ slot.result.context = RetrievedTexts(slot)

\* a query ran both stages and answered from at least two chunks
C5_Witness ==
  \E q \in QueryIds :
    /\ queries[q].result.kind = "response"
    /\ Len(queries[q].result.context) >= 2
    /\ queries[q].result.context[1] # queries[q].result.context[2]

\* C6: when generate errors, query fails and returns nothing of the
\* invocation (no answer, no context), and the step changes neither the
\* orchestrator's fields nor the index nor any other call, so the graph a
\* following query needs is still there.
C6_GenerationFailureIsLocal ==
  [][\A q \in QueryIds :
       QueryGenerateFailed(q) =>
         /\ queries'[q].pc = "done"
         /\ queries'[q].result.kind = "error"
         /\ queries'[q].result.cause = "llm.invoke failed"
         /\ DOMAIN queries'[q].result \cap {"answer", "context", "retrievedDocs"} = {}
         /\ graph' = "compiled"
         /\ UNCHANGED <<stores, vectorStore, pineconeIndex, promptTemplate, graph,
                        init, add>>
    ]_vars

\* a query failed in generate and another query on the same instance
\* returned a response
C6_Witness ==
  /\ queries[1].result.kind = "error"
  /\ queries[1].result.cause = "llm.invoke failed"
  /\ queries[2].result.kind = "response"

\* query q fails in this step
QueryFails(q) ==
  /\ queries[q].pc \notin {"idle", "done"}
  /\ queries'[q].pc = "done"
  /\ queries'[q].result.kind = "error"

\* C7: queries in flight together each have their own state: a response's
\* answer is generated from that query's question and that query's retrieved
\* context, and a query that fails changes no other query.
C7_QueriesAreIsolated ==
  [][\A q \in QueryIds :
       /\ queries'[q].result.kind = "response" =>
            /\ queries'[q].result.answer =
                 LlmAnswer([question |-> queries'[q].question,
                            context |-> Concatenated(RetrievedTexts(queries'[q]))])
            /\ queries'[q].result.context = RetrievedTexts(queries'[q])
       /\ QueryFails(q) =>
            \A p \in QueryIds \ {q} : queries'[p] = queries[p]
    ]_vars

\* two queries with different questions are in flight together, both
\* waiting for the language model, each with its own context
C7_Witness ==
  \E q, p \in QueryIds :
    /\ queries[q].pc = "llm"
    /\ queries[p].pc = "llm"
    /\ queries[q].question # queries[p].question
    /\ queries[q].state.context # queries[p].state.context

----------------------------------------------------------------------------------------------------------------------------------------
(* Claims about the index of the RAGPipeline *)

\* how many records of a sequence carry the text
CountText(records, text) ==
  Cardinality({i \in DOMAIN records : records[i].pageContent = text})

\* C12: add may be called repeatedly and never deduplicates: every add that
\* completes appends exactly its chunks to the records the store held (a
\* chunk already held included), no other step changes the records of a
\* store, and a retrieve for a text that two or more records carry returns
\* that text at least twice.
C12_AddNeverDeduplicates ==
  [][ /\ InitAdded =>
           \A t \in {init.target}, chunks \in {init.allSplits} :
             Records(t)' = Records(t) \o chunks
      /\ AddAdded =>
           \A t \in {add.target}, chunks \in {add.allSplits} :
             Records(t)' = Records(t) \o chunks
      /\ ~(InitAdded \/ AddAdded) =>
           \A id \in DOMAIN stores : Records(id)' = Records(id)
      /\ \A q \in QueryIds :
           /\ QueryRetrieveEnd(q)
           /\ CountText(Records(queries[q].store), queries[q].question) >= 2
           => CountText(queries'[q].retrieved, queries[q].question) >= 2 ]_vars

\* the same chunk was added twice, by initialize and by addNewDocuments, and
\* a query for its exact text got it back twice
C12_Witness ==
  \E q \in QueryIds :
    /\ init.outcome = "resolved"
    /\ add.outcome = "resolved"
    /\ vectorStore # 0
    /\ Len(Records(vectorStore)) = 5
    /\ queries[q].result.kind = "response"
    /\ queries[q].question = <<"c", "d">>
    /\ CountText(queries[q].retrieved, <<"c", "d">>) = 2

----------------
(* Claims about the SemanticSearchProcessor *)

\* C9: when the embedding call fails inside an index add, a search by text
\* or processEmbeddedQueriesWithDetailedLogging, the operation rejects with
\* that error: it never completes normally, leaves no partial result and the
\* records of the stores are as before.
C9_EmbeddingFailurePropagates ==
  [][ /\ ProcAddFailed =>
           proc'.outcome = "rejected" /\ sspStores' = sspStores
      /\ SearchEmbedFailed =>
           /\ search'.outcome = "rejected"
           /\ search'.error = "embedding failed"
           /\ search'.results = <<>>
      /\ DetailedEmbedFailed =>
           /\ detailed'.outcome = "rejected"
           /\ detailed'.resultCounts = <<>> ]_vars

\* C10: a search called before any processDocuments has completed
\* successfully (in particular after one failed during its add) is rejected
\* with 'Vector store not initialized'.
C10_SearchBeforeAddRejected ==
  [][ \A kind \in SearchKinds, query \in Questions, k \in SearchKs :
        SearchCall(kind, query, k) /\ proc.succeeded = 0 =>
          /\ search'.outcome = "rejected"
          /\ search'.error = "Vector store not initialized" ]_vars

\* C10, the case the claim singles out: a search called after the only
\* processDocuments so far has failed is rejected in the same way.
C10_SearchAfterFailedAddRejected ==
  [][ \A kind \in SearchKinds, query \in Questions, k \in SearchKs :
        /\ SearchCall(kind, query, k)
        /\ proc.succeeded = 0
        /\ proc.pc = "idle"
        /\ proc.outcome = "rejected"
        => /\ search'.outcome = "rejected"
           /\ search'.error = "Vector store not initialized" ]_vars

\* C11: a search with k > 0 on a store holding N records completes without
\* error and returns exactly min(k, N) results: none when the store is empty,
\* 2 for k = 3 and N = 2.
C11_SearchReturnsMinOfKAndN ==
  [][ /\ SearchEmbedded =>
           LET n == Len(sspStores[search.store]) IN
           /\ search'.outcome = "resolved"
           /\ Len(search'.results) = IF search.k <= n THEN search.k ELSE n
      /\ (/\ search.pc \in {"idle", "done"}
          /\ search' # search
          /\ search'.kind = "searchWithVectorsWithScore"
          /\ StoreInitialized(sspVectorStore))
         => LET n == Len(sspStores[sspVectorStore]) IN
            /\ search'.outcome = "resolved"
            /\ Len(search'.results) = IF search'.k <= n THEN search'.k ELSE n ]_vars

\* a search by text with k = 3 returned exactly the 2 records of the store
C11_Witness ==
  /\ search.kind = "search"
  /\ search.outcome = "resolved"
  /\ search.k = 3
  /\ sspVectorStore # 0
  /\ Len(sspStores[sspVectorStore]) = 2
  /\ Len(search.results) = 2

\* a search on an empty store returned an empty result
C11_EmptyStoreCase ==
  /\ search.outcome = "resolved"
  /\ search.results = <<>>
  /\ search.k > 0

\* a search returned k results out of more than k records
C11_CutAtKCase ==
  /\ search.outcome = "resolved"
  /\ sspVectorStore # 0
  /\ Len(sspStores[sspVectorStore]) > search.k
  /\ Len(search.results) = search.k

----------------------------------------------------------------------------
(* Claims about batchSearchAdvanced *)

\* query i of the batch in flight gets its documents in this step
BatchRetrieves(i) ==
  /\ batch.pc = "batch"
  /\ i \in batch.pending
  /\ batch'.pc \in {"batch", "done"}
  /\ batch'.pending = batch.pending \ {i}
  /\ batch'.outcome # "rejected"

\* query i of the batch in flight fails in this step
BatchFails(i) ==
  /\ batch.pc = "batch"
  /\ i \in batch.pending
  /\ batch'.error = "embedding failed"

\* the documents the retriever of the batch in flight returns for query i
BatchDocuments(i) ==
  RetrieverDocuments(batch.retriever, sspStores[batch.store],
                     Embed(batch.queries[i]))

\* C13: in a batched retrieval each query gets what retrieving it alone
\* returns, and the failure of one query does not keep the results of the
\* other queries from being returned: the batch is not rejected by it.
C13_BatchQueriesAreIndependent ==
  [][ \A i \in 1..MaxBatch :
        /\ BatchRetrieves(i) =>
             IF batch'.pc = "batch"
             THEN batch'.batchResults[i] = BatchDocuments(i)
             ELSE (\A j \in DOMAIN batch.queries :
                     batch.queries[j] = batch.queries[i] => j <= i)
                  => batch'.value.results[batch.queries[i]] = BatchDocuments(i)
        /\ (BatchFails(i) /\ Len(batch.queries) > 1) =>
             batch'.outcome # "rejected" ]_vars

\* batchSearchAdvanced is called in this step on an initialized processor
BatchCalled ==
  /\ batch.pc \in {"idle", "done"}
  /\ batch' # batch
  /\ StoreInitialized(sspVectorStore)

\* the similarity-strategy results whose score reaches the cutoff
AtLeastThreshold(records, q, k, cutoff) ==
  SelectSeq(SimilaritySearchVector(records, q, k),
            LAMBDA d : Cosine(q, Embed(d.pageContent)) >= cutoff)

\* C14: a retrieval with strategy 'threshold' and a scoreThreshold succeeds,
\* and returns for each query exactly the similarity results whose score is
\* at least the cutoff.
C14_ThresholdStrategyFilters ==
  [][ /\ (BatchCalled /\ OptionStrategy(batch'.options) = "threshold") =>
           batch'.outcome # "rejected"
      /\ \A i \in 1..MaxBatch :
           (BatchRetrieves(i) /\ OptionStrategy(batch.options) = "threshold") =>
             BatchDocuments(i) =
               AtLeastThreshold(sspStores[batch.store], Embed(batch.queries[i]),
                                OptionK(batch.options),
                                batch.options.scoreThreshold) ]_vars

\* C15: with strategy 'mmr' and lambda = 1 every query gets the sequence of
\* chunks the 'similarity' strategy returns for the same k.
C15_MmrLambdaOneIsSimilarity ==
  [][ \A i \in 1..MaxBatch :
        (/\ BatchRetrieves(i)
         /\ OptionStrategy(batch.options) = "mmr"
         /\ OptionLambda(batch.options) = 10) =>
          BatchDocuments(i) =
            SimilaritySearchVector(sspStores[batch.store],
                                   Embed(batch.queries[i]),
                                   OptionK(batch.options)) ]_vars

\* how many entries of a sequence equal d
CountOf(seq, d) == Cardinality({j \in DOMAIN seq : seq[j] = d})

\* C16: under 'mmr' with a pool of the fetchK >= k most similar records,
\* every query gets exactly min(k, N) chunks, never more than the requested
\* k, each from the pool and none more often than the pool holds it.
C16_MmrSelectsKFromPool ==
  [][ \A i \in 1..MaxBatch :
        (/\ BatchRetrieves(i)
         /\ OptionStrategy(batch.options) = "mmr"
         /\ OptionFetchK(batch.options) >= OptionK(batch.options)) =>
          LET k == OptionK(batch.options)
              n == Len(sspStores[batch.store])
              pool == SimilaritySearchVector(sspStores[batch.store],
                                             Embed(batch.queries[i]),
                                             OptionFetchK(batch.options))
              docs == BatchDocuments(i)
          IN /\ Len(docs) = IF k <= n THEN k ELSE n
             /\ Len(docs) <= k
             /\ \A j \in DOMAIN docs :
                  CountOf(docs, docs[j]) <= CountOf(pool, docs[j]) ]_vars

\* batchSearchAdvanced returned a value
BatchResolved == batch.pc = "done" /\ batch.outcome = "resolved"

\* the entries of the results map, and the documents they hold in all
ResultEntries == DOMAIN batch.value.results
ResultsHeld ==
  SumOver([q \in ResultEntries |-> Len(batch.value.results[q])], ResultEntries)

\* C21: for every successful batchSearchAdvanced call, on a list that holds
\* the same query text twice too, the results map has one entry per input
\* query, metadata.totalQueries is the number of entries of results, and
\* metadata.totalResults is the sum of the lengths of the lists in results.
C21_BatchMetadataCountsResults ==
  BatchResolved =>
    /\ Cardinality(ResultEntries) = Len(batch.queries)
    /\ batch.value.metadata.totalQueries = Cardinality(ResultEntries)
    /\ batch.value.metadata.totalResults = ResultsHeld

\* the same for the lists that hold no query text twice
C21_DistinctQueriesCounted ==
  (BatchResolved /\ Cardinality(Range(batch.queries)) = Len(batch.queries)) =>
    /\ Cardinality(ResultEntries) = Len(batch.queries)
    /\ batch.value.metadata.totalQueries = Cardinality(ResultEntries)
    /\ batch.value.metadata.totalResults = ResultsHeld

\* a list of two different queries was answered with documents
C21_DistinctCase ==
  /\ BatchResolved
  /\ Cardinality(Range(batch.queries)) = 2
  /\ batch.value.metadata.totalResults > 0

----------------------------------------------------------------------------
(* Claims about VectorStoreFactory in initialize *)

\* the store configurations createVectorStore builds a store for
StoreSupported(vs) ==
  \/ vs.type = "memory"
  \/ vs.type = "pinecone" /\ Has(vs, "pineconeConfig")

\* the createVectorStore call of initialize settles in this step
CreateVectorStoreSettles == init.pc = "createVectorStore" /\ init' # init

\* C23: createVectorStore returns a store only for kind 'memory' and for
\* kind 'pinecone' with its pineconeConfig; for 'pinecone' without
\* pineconeConfig and for any other kind it fails, and initialize then fails
\* before any document is loaded, chunked or embedded, and the pipeline has
\* no vector store.
C23_UnsupportedStoreFailsInitialize ==
  [][ /\ CreateVectorStoreSettles =>
           IF StoreSupported(config.vectorStore)
           THEN /\ init'.pc = "loadDocuments"
                /\ StoreInitialized(vectorStore')
                /\ stores'[vectorStore'].type = config.vectorStore.type
           ELSE /\ init'.outcome = "rejected"
                /\ init'.failedAt = "createVectorStore"
                /\ stores' = stores
      /\ ~StoreSupported(config.vectorStore) =>
           /\ init'.pc \in {"idle", "createVectorStore"}
           /\ init'.allSplits = <<>>
           /\ vectorStore' = 0
           /\ stores' = <<>>
           /\ graph' = "undefined" ]_vars

\* initialize was rejected at createVectorStore for a kind that is neither
\* 'memory' nor 'pinecone'
C23_Witness ==
  /\ config.vectorStore.type \notin {"memory", "pinecone"}
  /\ init.outcome = "rejected"
  /\ init.failedAt = "createVectorStore"
  /\ vectorStore = 0

\* the same for 'pinecone' without its pineconeConfig
C23_PineconeWithoutConfigCase ==
  /\ config.vectorStore.type = "pinecone"
  /\ ~Has(config.vectorStore, "pineconeConfig")
  /\ init.outcome = "rejected"
  /\ init.failedAt = "createVectorStore"

\* a store was created for 'pinecone' with its pineconeConfig
C23_PineconeCase ==
  /\ config.vectorStore.type = "pinecone"
  /\ StoreInitialized(vectorStore)
  /\ stores[vectorStore].type = "pinecone"

----------------------------------------------------------------------------
(* Claims about CustomPDFProcessor *)

\* the documents a search call returned
PdfResultDocs(call) ==
  IF call.kind = "searchWithScore"
  THEN [i \in DOMAIN call.results |-> call.results[i][1]]
  ELSE call.results

\* a search is called in this step, and a search returns in this step
PdfSearchCalled == pdfSearch.pc \in {"idle", "done"} /\ pdfSearch' # pdfSearch
PdfSearchReturns == pdfSearch.pc = "embedQuery" /\ pdfSearch'.outcome = "resolved"

\* changePDF is called in this step
PdfChangeCalled ==
  \E c \in 1..MaxPdfCalls :
    pdfCalls[c].pc = "idle" /\ pdfCalls'[c].kind = "changePDF"

\* the last call made on the processor is a changePDF whose reprocessing
\* failed while loading
LastChangeFailedLoading ==
  \E c \in 1..MaxPdfCalls :
    /\ pdfCalls[c].kind = "changePDF"
    /\ pdfCalls[c].outcome = "rejected"
    /\ pdfCalls[c].failedAt = "load"
    /\ \A b \in (c + 1)..MaxPdfCalls : pdfCalls[b].pc = "idle"

\* C22: after any processDocuments and changePDF calls a search returns
\* only chunks of the file configured when the search was made: changePDF
\* clears the store and the documents before it reprocesses, and after a
\* changePDF whose reprocessing failed while loading, a search fails with
\* 'Vector store not initialized'.
C22_SearchServesConfiguredFile ==
  [][ /\ PdfSearchReturns =>
           \A i \in DOMAIN PdfResultDocs(pdfSearch') :
             PdfResultDocs(pdfSearch')[i].metadata.source
               = PdfPath(pdfSearch.configured)
      /\ PdfChangeCalled => pdfVectorStore' = 0 /\ pdfDocuments' = <<>>
      /\ (PdfSearchCalled /\ LastChangeFailedLoading) =>
           /\ pdfSearch'.outcome = "rejected"
           /\ pdfSearch'.error = "Vector store not initialized" ]_vars

\* a search made after a changePDF to another file returned that file's
\* chunks
C22_ChangedFileServed ==
  /\ pdfSearch.outcome = "resolved"
  /\ pdfSearch.results # <<>>
  /\ \E c \in 1..MaxPdfCalls :
       /\ pdfCalls[c].kind = "changePDF"
       /\ pdfCalls[c].outcome = "resolved"
       /\ pdfCalls[c].file = pdfSearch.configured
       /\ \E b \in 1..(c - 1) : pdfCalls[b].outcome = "resolved"
                                 /\ pdfCalls[b].file # pdfCalls[c].file

\* a search made after a changePDF that failed while loading was rejected
C22_FailedChangeCase ==
  /\ LastChangeFailedLoading
  /\ pdfSearch.outcome = "rejected"
  /\ pdfSearch.error = "Vector store not initialized"
  /\ \E c \in 1..MaxPdfCalls : pdfCalls[c].outcome = "resolved"

----------------------------------------------------------------------------
(* Claims about DocumentLoaderFactory *)

\* the loadDocuments call has run createLoader on a 'file' configuration
FileLoadStarted ==
  /\ loadCall.pc # "idle"
  /\ loadCall.config.type = "file"
  /\ Has(loadCall.config, "fileConfig")

\* C17: for a 'file' configuration whose path does not exist, loading fails
\* with 'File not found' whatever the sub-format, after the existence check
\* alone: no reader is constructed and nothing is read; for a path that
\* exists with a sub-format other than pdf and txt it fails with 'Unsupported
\* file type'; no Document is produced in either case.
C17_FileLoaderErrors ==
  FileLoadStarted =>
    /\ loadCall.config.fileConfig.path \notin ExistingFiles =>
         /\ loadCall.pc = "done"
         /\ loadCall.outcome = "rejected"
         /\ loadCall.error = "File not found"
         /\ loadCall.effects = <<"fs.existsSync">>
         /\ loadCall.documents = <<>>
    /\ (/\ loadCall.config.fileConfig.path \in ExistingFiles
        /\ loadCall.config.fileConfig.type \notin {"pdf", "txt"}) =>
         /\ loadCall.pc = "done"
         /\ loadCall.outcome = "rejected"
         /\ loadCall.error = "Unsupported file type"
         /\ loadCall.effects = <<"fs.existsSync">>
         /\ loadCall.documents = <<>>

\* a file that does not exist, declared with a sub-format that is not
\* supported, was reported as not found
C17_Witness ==
  /\ FileLoadStarted
  /\ loadCall.config.fileConfig.path \notin ExistingFiles
  /\ loadCall.config.fileConfig.type = "json"
  /\ loadCall.error = "File not found"

\* a file that exists, declared as json, was reported as unsupported
C17_UnsupportedCase ==
  /\ FileLoadStarted
  /\ loadCall.config.fileConfig.path \in ExistingFiles
  /\ loadCall.config.fileConfig.type = "json"
  /\ loadCall.error = "Unsupported file type"

\* what loading a 'text' configuration must have come to once it is over:
\* one Document, the literal string as content, the synthetic source tag
TextLoadSucceeded ==
  /\ loadCall.outcome # "rejected"
  /\ loadCall.pc = "done" =>
       /\ loadCall.outcome = "resolved"
       /\ Len(loadCall.documents) = 1
       /\ loadCall.documents[1].pageContent = loadCall.config.textConfig.content
       /\ loadCall.documents[1].metadata = [source |-> "text-input"]

\* C18 as stated: loading any configuration of kind 'text' cannot fail and
\* yields exactly one Document with the literal string and the synthetic tag.
C18_TextLoaderCannotFail ==
  (loadCall.pc # "idle" /\ loadCall.config.type = "text") => TextLoadSucceeded

\* C18, amended: loading a configuration of kind 'text' that carries its
\* textConfig cannot fail and yields exactly one Document with the literal
\* string and the synthetic tag.
C18_TextLoaderWithContentCannotFail ==
  (/\ loadCall.pc # "idle"
   /\ loadCall.config.type = "text"
   /\ Has(loadCall.config, "textConfig")) => TextLoadSucceeded

\* a literal string of several characters was loaded as one Document
C18_Witness ==
  /\ loadCall.config.type = "text"
  /\ loadCall.outcome = "resolved"
  /\ Len(loadCall.documents) = 1
  /\ Len(loadCall.documents[1].pageContent) = MaxTextLen

----------------------------------------------------------------------------
(* Claims about the response of RAGPipeline.query *)

\* the retrieve node of query q returns in this step
RetrieveReturns(q) ==
  /\ queries[q].pc = "embedQuery"
  /\ queries'[q].stages # queries[q].stages

\* C20: in every response of query, metadata.retrievedDocs is the length of
\* context, which is the number of chunks the retrieve node returned for
\* that query: min(4, N) for a store of N records, so at most 4 and at most N
C20_RetrievedDocsCountsContext ==
  [][ \A q \in 1..MaxQueries :
        /\ RetrieveReturns(q) =>
             LET n == Len(Records(queries[q].store)) IN
             Len(queries'[q].retrieved) = IF RetrieveK <= n THEN RetrieveK ELSE n
        /\ queries'[q].result.kind = "response" =>
             /\ queries'[q].result.retrievedDocs = Len(queries'[q].result.context)
             /\ queries'[q].result.retrievedDocs = Len(queries'[q].retrieved)
             /\ queries'[q].result.retrievedDocs <= RetrieveK ]_vars

\* a response over a store of more than 4 records reports 4 chunks
C20_Witness ==
  \E q \in 1..MaxQueries :
    /\ queries[q].result.kind = "response"
    /\ StoreInitialized(vectorStore)
    /\ Len(Records(vectorStore)) > RetrieveK
    /\ queries[q].result.retrievedDocs = RetrieveK
    /\ Len(queries[q].result.context) = RetrieveK

\* a response over a store of fewer than 4 records reports them all
C20_SmallStoreCase ==
  \E q \in 1..MaxQueries :
    /\ queries[q].result.kind = "response"
    /\ queries[q].result.retrievedDocs > 0
    /\ queries[q].result.retrievedDocs < RetrieveK
    /\ queries[q].result.retrievedDocs = Len(Records(vectorStore))

----------------------------------------------------------------------------
(* Claims about the chunks of RecursiveCharacterTextSplitter *)

\* the text without its first n characters
DropPrefix(text, n) == SubSeq(text, n + 1, Len(text))

RECURSIVE Reconstruct(_, _)
\* the chunk texts concatenated, every chunk after the first without its
\* first overlap characters
Reconstruct(texts, overlap) ==
  IF texts = <<>> THEN <<>>
  ELSE IF Len(texts) = 1 THEN texts[1]
  ELSE Reconstruct(SubSeq(texts, 1, Len(texts) - 1), overlap)
       \o DropPrefix(texts[Len(texts)], overlap)

\* the texts of the chunks a splitDocuments call returned
ChunkTexts == [i \in DOMAIN splitCall.chunks |-> splitCall.chunks[i].pageContent]

\* splitDocuments returned, under a configuration with 0 <= overlap < size
SplitDone ==
  /\ splitCall.pc = "done"
  /\ splitCall.outcome = "resolved"
  /\ 0 <= splitCall.chunking.chunkOverlap
  /\ splitCall.chunking.chunkOverlap < splitCall.chunking.chunkSize

\* C19: for every content and every chunk configuration with
\* 0 <= overlap < size, the chunks of the content, concatenated with the
\* first chunkOverlap characters of every chunk after the first dropped,
\* are the content
C19_ChunksReconstructContent ==
  SplitDone =>
    Reconstruct(ChunkTexts, splitCall.chunking.chunkOverlap) = splitCall.text

\* the same for the contents that hold no whitespace, which the splitter
\* cuts into characters and merges into windows
C19_LettersOnlyReconstruct ==
  (SplitDone /\ Range(splitCall.text) \cap Whitespace = {}) =>
    Reconstruct(ChunkTexts, splitCall.chunking.chunkOverlap) = splitCall.text

\* a content of words is split with a positive overlap into several chunks
C19_WordsCase ==
  /\ SplitDone
  /\ splitCall.chunking.chunkOverlap > 0
  /\ Len(splitCall.chunks) > 1
  /\ Range(splitCall.text) \cap Whitespace # {}

====
